---- MODULE Spec2Model ----
(***************************************************************************)
(* django-drf-filepond: the api module (store_upload, get_stored_upload,   *)
(* get_stored_upload_file_data, delete_stored_upload) over the Temporary   *)
(* Upload and Stored Upload tables and the physical stores.                *)
(* Strings (upload ids, file names) are sequences of one-character         *)
(* strings, so the identifier format check is computed, not assumed.       *)
(***************************************************************************)
EXTENDS Integers, Sequences, FiniteSets, TLC

\* ---------------------------------------------------------------- bounds
\* How many uploads are ever created (one fresh upload id each).
MaxUploads == 2

\* How many chunks are delivered for one chunked upload.
MaxChunks == 3

\* ------------------------------------------------------------- constants
\* The {22} of the identifier format regex.
IdLen == 22

\* shortuuid.get_alphabet(): the default shortuuid alphabet (no 0, 1, I, O, l).
Alphabet ==
    {"2","3","4","5","6","7","8","9",
     "A","B","C","D","E","F","G","H","J","K","L","M","N",
     "P","Q","R","S","T","U","V","W","X","Y","Z",
     "a","b","c","d","e","f","g","h","i","j","k","m","n","o",
     "p","q","r","s","t","u","v","w","x","y","z"}

Rep(c, n) == [i \in 1..n |-> c]

\* The characters the model's upload ids are made of, one id per character.
IdChars == <<"a", "b", "c", "d", "e", "f">>

\* The upload ids the Identifier Generator hands out, in this order.
Ids == {Rep(IdChars[i], IdLen) : i \in 1..MaxUploads}

\* File names of temporary uploads are opaque handles into temporary storage:
\* the model has a name that looks like an upload id and the name of an image.
\* What a client uploads: the name its file gets in temporary storage, its
\* bytes and the actor.
UploadKinds ==
    {[file |-> Rep("a", IdLen), content |-> "bytes1", uploaded_by |-> "anon"],
     [file |-> <<"d", "/", "p", ".", "p", "n", "g">>, content |-> "bytes2",
      uploaded_by |-> "alice"]}

\* Strings handed to the api functions as upload_id: the ids, the file names,
\* and an ill-formed identifier.
Inputs ==
    Ids \cup {k.file : k \in UploadKinds} \cup
    {<<"I", "N", "V", "A", "L", "I", "D", "I", "D">>}

\* Strings to try the identifier format check on: runs of a character of the
\* alphabet that are empty, short, one short, of the exact length and one too
\* long, alone or followed by a newline, a character outside the alphabet, or
\* two newlines.
FormatInputs ==
    {Rep(c, n) \o suffix :
        c \in {"a", "Z", "2"},
        n \in {0, 1, IdLen - 1, IdLen, IdLen + 1},
        suffix \in {<<>>, <<"\n">>, <<"0">>, <<"\n", "\n">>}}
    \cup {<<"I", "N", "V", "A", "L", "I", "D", "I", "D">>}

\* The settings the model runs under.  UNSET: the setting has no value.
\* Local storage with FILE_STORE_PATH unset, a directory of its own, or the
\* directory of the temporary uploads; a remote backend whose bucket also
\* holds the temporary uploads.
UNSET == "<unset>"
ExistingDirs == {"/uploads", "/store"}
ExistingFiles == {"/afile"}
Configs ==
    {[STORAGES_BACKEND |-> UNSET, UPLOAD_TMP |-> "/uploads", FILE_STORE_PATH |-> p] :
        p \in {UNSET, "/store", "/uploads"}}
    \cup
    {[STORAGES_BACKEND |-> "s3", UPLOAD_TMP |-> "bucket", FILE_STORE_PATH |-> UNSET]}

\* Local storage whose FILE_STORE_PATH is unusable: unset, empty, a path that
\* does not exist, a path that is a file.
BadStorePathConfigs ==
    {[STORAGES_BACKEND |-> UNSET, UPLOAD_TMP |-> "/uploads", FILE_STORE_PATH |-> p] :
        p \in {UNSET, "", "/missing", "/afile"}}

NoRec == [upload_id |-> <<>>, file |-> <<>>, uploaded |-> 0, uploaded_by |-> "none"]

NoCall ==
    [op |-> "none", id |-> <<>>, delete_file |-> FALSE, thumbnail_type |-> "none",
     result |-> "none", su |-> NoRec, filename |-> <<>>, data |-> <<>>,
     trace |-> <<>>]

\* The workers that run api calls at the same time.
Workers == {1, 2}

\* No call is in progress.  store / revert: where a store_upload and a revert
\* that run step by step stand and the Temporary Upload each has read;
\* reverted: the upload ids whose artifact a revert has deleted.
Idle ==
    [store |-> [at |-> "idle", temp_upload |-> NoRec],
     revert |-> [at |-> "idle", tu |-> NoRec],
     reverted |-> {}]

\* When two workers run store_upload.  calls: where each worker's call stands
\* and the Temporary Upload it has read; returned: how many store_upload calls
\* have returned a Stored Upload, per upload id.
IdleCalls ==
    [calls |-> [w \in Workers |-> [at |-> "idle", temp_upload |-> NoRec]],
     returned |-> [u \in Ids |-> 0]]

\* When two workers run the lazy initialisation.  init: where each worker's
\* call stands and the call's arguments.
IdleInit ==
    [init |-> [w \in Workers |->
                [at |-> "idle", op |-> "none", id |-> <<>>, su |-> NoRec]]]

VARIABLES
    cfg,                          \* drf_filepond_settings
    tmp,                          \* TemporaryUpload table
    stored,                       \* StoredUpload table
    files,                        \* the physical stores: [loc, name, content]
    storage_backend_initialised,  \* api.storage_backend_initialised
    storage_backend,              \* api.storage_backend: 0 is None, n the nth instance
    assembled,                    \* upload id -> the content uploaded for it
    last,                         \* the last call: its arguments and outcome
    pc                            \* the calls in progress, when calls interleave

vars == <<cfg, tmp, stored, files, storage_backend_initialised, storage_backend,
          assembled, last, pc>>

\* The upload ids handed out so far.
used == DOMAIN assembled

\* ------------------------------------------------------------- helpers
\* re.compile('^([%s]){22}$' % alphabet).match(s): 22 characters of the
\* alphabet; Python's $ also matches just before one trailing newline.
IdFmtMatch(s) ==
    /\ Len(s) \in {IdLen, IdLen + 1}
    /\ \A i \in 1..IdLen : s[i] \in Alphabet
    /\ Len(s) = IdLen + 1 => s[IdLen + 1] = "\n"

\* Model.objects.get(upload_id=...): the matching rows (none: DoesNotExist).
TmpGet(upload_id) == {t \in tmp : t.upload_id = upload_id}

StoredGetById(upload_id) == {r \in stored : r.upload_id = upload_id}

StoredGetByFile(name) == {r \in stored : r.file = name}

\* A file of this name exists (and is a regular file) at this location.
FileExists(loc, name) == \E f \in files : f.loc = loc /\ f.name = name

FileContent(loc, name) == (CHOOSE f \in files : f.loc = loc /\ f.name = name).content

\* _get_storage_backend(fq_classname): None (0) when no backend is named,
\* else a new instance of the backend class.
_get_storage_backend(fq_classname) ==
    IF fq_classname \in {UNSET, ""} THEN 0 ELSE storage_backend + 1

\* api._init_storage_backend(), run by an operation when the flag is not set:
\* the module globals afterwards.
_init_storage_backend ==
    [storage_backend |-> _get_storage_backend(cfg.STORAGES_BACKEND),
     storage_backend_initialised |-> TRUE]

\* "if not storage_backend_initialised: _init_storage_backend()"
InitIfNeeded ==
    IF storage_backend_initialised
    THEN [storage_backend |-> storage_backend,
          storage_backend_initialised |-> storage_backend_initialised]
    ELSE _init_storage_backend

\* NewStoredUpload that loses who uploaded the file.
NewStoredUpload_drops_actor(temp_upload) ==
    [upload_id |-> temp_upload.upload_id,
     file |-> temp_upload.file,
     uploaded |-> temp_upload.uploaded,
     uploaded_by |-> "none"]

\* StoredUpload(upload_id=..., file=..., uploaded=..., uploaded_by=...)
NewStoredUpload(temp_upload) ==
    [upload_id |-> temp_upload.upload_id,
     file |-> temp_upload.file,
     uploaded |-> temp_upload.uploaded,
     uploaded_by |-> temp_upload.uploaded_by]

\* The persistence layer enforces uniqueness of upload_id: saving a second
\* Stored Upload with an upload_id already in the table is an error.
SaveViolatesUnique(su) == StoredGetById(su.upload_id) # {}

\* ------------------------------------------------------------- store_upload
\* An exception leaves the call: nothing is written.  trace: the persistence
\* operations made so far, in order.
Raised(e, trace) ==
    [result |-> e, tmp |-> tmp, stored |-> stored, su |-> NoRec, trace |-> trace]

\* PromoteRecord that leaves the Temporary Upload in place on success.
PromoteRecord_keeps_temp(temp_upload, saveFails, deleteFails) ==
    LET su == NewStoredUpload(temp_upload)
    IN  IF saveFails \/ SaveViolatesUnique(su)
        THEN Raised("Error:save", <<"tmp.get", "su.save">>)
        ELSE IF deleteFails
        THEN [result |-> "Error:delete", tmp |-> tmp, stored |-> stored \cup {su},
              su |-> NoRec, trace |-> <<"tmp.get", "su.save", "tmp.delete">>]
        ELSE [result |-> "ok", tmp |-> tmp, stored |-> stored \cup {su},
              su |-> su, trace |-> <<"tmp.get", "su.save">>]

\* PromoteRecord that deletes the Temporary Upload before saving the Stored
\* Upload, so that a failed save has already lost the Temporary Upload.
PromoteRecord_deletes_first(temp_upload, saveFails, deleteFails) ==
    LET su == NewStoredUpload(temp_upload)
    IN  IF deleteFails
        THEN Raised("Error:delete", <<"tmp.get", "tmp.delete">>)
        ELSE IF saveFails \/ SaveViolatesUnique(su)
        THEN [result |-> "Error:save", tmp |-> tmp \ {temp_upload}, stored |-> stored,
              su |-> NoRec, trace |-> <<"tmp.get", "tmp.delete", "su.save">>]
        ELSE [result |-> "ok", tmp |-> tmp \ {temp_upload},
              stored |-> stored \cup {su},
              su |-> su, trace |-> <<"tmp.get", "tmp.delete", "su.save">>]

\* PromoteRecord that removes the saved Stored Upload again when deleting the
\* Temporary Upload fails.
PromoteRecord_rolls_back(temp_upload, saveFails, deleteFails) ==
    LET su == NewStoredUpload(temp_upload)
    IN  IF saveFails \/ SaveViolatesUnique(su)
        THEN Raised("Error:save", <<"tmp.get", "su.save">>)
        ELSE IF deleteFails
        THEN Raised("Error:delete", <<"tmp.get", "su.save", "tmp.delete", "su.delete">>)
        ELSE [result |-> "ok", tmp |-> tmp \ {temp_upload},
              stored |-> stored \cup {su},
              su |-> su, trace |-> <<"tmp.get", "su.save", "tmp.delete">>]

\* The try block of store_upload: build the Stored Upload from the Temporary
\* Upload, su.save(), temp_upload.delete(); an exception of either is logged
\* and raised again.  saveFails / deleteFails: the persistence layer raises.
PromoteRecord(temp_upload, saveFails, deleteFails) ==
    LET su == NewStoredUpload(temp_upload)
    IN  IF saveFails \/ SaveViolatesUnique(su)
        THEN Raised("Error:save", <<"tmp.get", "su.save">>)
        ELSE IF deleteFails
        THEN [result |-> "Error:delete", tmp |-> tmp, stored |-> stored \cup {su},
              su |-> NoRec, trace |-> <<"tmp.get", "su.save", "tmp.delete">>]
        ELSE [result |-> "ok", tmp |-> tmp \ {temp_upload},
              stored |-> stored \cup {su},
              su |-> su, trace |-> <<"tmp.get", "su.save", "tmp.delete">>]

\* store_upload with the record looked up before the format is checked.
store_upload_lookup_first(upload_id, saveFails, deleteFails) ==
    IF TmpGet(upload_id) = {}
    THEN IF ~IdFmtMatch(upload_id) THEN Raised("ValueError:format", <<"tmp.get">>)
         ELSE Raised("ValueError:norecord", <<"tmp.get">>)
    ELSE PromoteRecord(CHOOSE t \in TmpGet(upload_id) : TRUE, saveFails, deleteFails)

\* store_upload that stores an empty Stored Upload when no Temporary Upload
\* has the id.
store_upload_creates_when_missing(upload_id, saveFails, deleteFails) ==
    IF ~IdFmtMatch(upload_id) THEN Raised("ValueError:format", <<>>)
    ELSE IF TmpGet(upload_id) = {}
    THEN [Raised("ValueError:norecord", <<"tmp.get">>)
            EXCEPT !.stored = stored \cup {[NoRec EXCEPT !.upload_id = upload_id]}]
    ELSE PromoteRecord(CHOOSE t \in TmpGet(upload_id) : TRUE, saveFails, deleteFails)

\* store_upload that answers a repeated promotion with the Stored Upload the
\* first one made.
store_upload_again_is_success(upload_id, saveFails, deleteFails) ==
    IF ~IdFmtMatch(upload_id) THEN Raised("ValueError:format", <<>>)
    ELSE IF TmpGet(upload_id) = {}
    THEN IF StoredGetById(upload_id) = {}
         THEN Raised("ValueError:norecord", <<"tmp.get">>)
         ELSE [result |-> "ok", tmp |-> tmp, stored |-> stored,
               su |-> CHOOSE r \in StoredGetById(upload_id) : TRUE,
               trace |-> <<"tmp.get", "su.get">>]
    ELSE PromoteRecord(CHOOSE t \in TmpGet(upload_id) : TRUE, saveFails, deleteFails)

\* store_upload(upload_id): the format check, the lookup of the Temporary
\* Upload, the promotion.  Gives the outcome, the two tables afterwards and
\* the persistence operations made.
store_upload(upload_id, saveFails, deleteFails) ==
    IF ~IdFmtMatch(upload_id) THEN Raised("ValueError:format", <<>>)
    ELSE IF TmpGet(upload_id) = {} THEN Raised("ValueError:norecord", <<"tmp.get">>)
    ELSE PromoteRecord(CHOOSE t \in TmpGet(upload_id) : TRUE, saveFails, deleteFails)

\* -------------------------------------------------------- get_stored_upload
\* Model.objects.get(...) on the matching rows.
ObjectsGet(matches) ==
    IF matches = {} THEN [result |-> "DoesNotExist", su |-> NoRec]
    ELSE IF Cardinality(matches) = 1
    THEN [result |-> "ok", su |-> CHOOSE r \in matches : TRUE]
    ELSE [result |-> "MultipleObjectsReturned", su |-> NoRec]

\* The lookup by upload_id is made (param_filename is still False after the
\* format check).
LooksUpById(upload_id) == IdFmtMatch(upload_id)

\* param_filename at "if param_filename:": the lookup by file path is made.
LooksUpByFile(upload_id) ==
    \/ ~IdFmtMatch(upload_id)
    \/ StoredGetById(upload_id) = {}

\* get_stored_upload that tries the file path first and the upload_id after.
get_stored_upload_file_first(upload_id) ==
    IF StoredGetByFile(upload_id) # {}
    THEN [trace |-> <<"su.get(file)">>] @@ ObjectsGet(StoredGetByFile(upload_id))
    ELSE [trace |-> <<"su.get(file)", "su.get(upload_id)">>]
         @@ ObjectsGet(StoredGetById(upload_id))

\* get_stored_upload that takes a well-formed identifier for an upload_id only
\* and never has another go with it as a file path.
get_stored_upload_no_second_go(upload_id) ==
    IF IdFmtMatch(upload_id)
    THEN [trace |-> <<"su.get(upload_id)">>] @@ ObjectsGet(StoredGetById(upload_id))
    ELSE [trace |-> <<"su.get(file)">>] @@ ObjectsGet(StoredGetByFile(upload_id))

\* get_stored_upload(upload_id): the outcome, the record and the lookups made.
get_stored_upload(upload_id) ==
    LET first == IF LooksUpById(upload_id) THEN <<"su.get(upload_id)">> ELSE <<>>
    IN  IF LooksUpByFile(upload_id)
        THEN [trace |-> first \o <<"su.get(file)">>]
             @@ ObjectsGet(StoredGetByFile(upload_id))
        ELSE [trace |-> first] @@ ObjectsGet(StoredGetById(upload_id))

\* ---------------------------------------------- get_stored_upload_file_data
\* The test on local_settings.FILE_STORE_PATH: set, not empty, exists, a
\* directory.
FileStorePathOk ==
    /\ cfg.FILE_STORE_PATH # UNSET
    /\ cfg.FILE_STORE_PATH # ""
    /\ cfg.FILE_STORE_PATH \in ExistingDirs \cup ExistingFiles
    /\ cfg.FILE_STORE_PATH \in ExistingDirs

\* Where os.path.join(file_path_base, name) is looked for: the remote
\* backend's namespace, or the directory FILE_STORE_PATH.
StoreLoc(backend) == IF backend # 0 THEN "bucket" ELSE cfg.FILE_STORE_PATH

\* os.path.basename(name)
Basename(name) ==
    LET slashes == {i \in 1..Len(name) : name[i] = "/"}
        from == IF slashes = {} THEN 1
                ELSE 1 + CHOOSE i \in slashes : \A j \in slashes : j <= i
    IN  SubSeq(name, from, Len(name))

\* is_image_for_thumbnail(filename): by the file's extension.
is_image_for_thumbnail(filename) ==
    /\ Len(filename) > 4
    /\ SubSeq(filename, Len(filename) - 3, Len(filename)) = <<".", "p", "n", "g">>

\* local_settings.THUMBNAIL_SIZES: the named presets.
THUMBNAIL_SIZES == {"small"}

\* THUMBNAIL_SIZES.get(thumbnail_type), '300x300' when the name is unknown.
ThumbnailConfig(thumbnail_type) ==
    IF thumbnail_type \in THUMBNAIL_SIZES THEN thumbnail_type ELSE "300x300"

\* get_stored_upload_file_data without the check that the file exists: a
\* missing file reads as no bytes.
get_stored_upload_file_data_unchecked(stored_upload, thumbnail_type, thumbOk) ==
    LET backend == InitIfNeeded.storage_backend
        loc == StoreLoc(backend)
        name == stored_upload.file
    IN  IF backend = 0 /\ ~FileStorePathOk
        THEN [result |-> "ConfigurationError", filename |-> <<>>, data |-> <<>>,
              trace |-> <<>>]
        ELSE [result |-> "ok", filename |-> Basename(name),
              data |-> IF FileExists(loc, name) THEN <<FileContent(loc, name)>>
                       ELSE <<>>,
              trace |-> <<>>]

\* get_stored_upload_file_data that raises when get_thumbnail produced no
\* thumbnail.
get_stored_upload_file_data_thumbnail_raises(stored_upload, thumbnail_type, thumbOk) ==
    LET backend == InitIfNeeded.storage_backend
        loc == StoreLoc(backend)
        name == stored_upload.file
        filename == Basename(name)
        fail(e) == [result |-> e, filename |-> <<>>, data |-> <<>>, trace |-> <<>>]
    IN  IF backend = 0 /\ ~FileStorePathOk THEN fail("ConfigurationError")
        ELSE IF ~FileExists(loc, name) THEN fail("FileNotFoundError")
        ELSE IF /\ is_image_for_thumbnail(filename)
                /\ thumbnail_type # "none"
                /\ THUMBNAIL_SIZES # {}
        THEN IF thumbOk
             THEN [result |-> "ok", filename |-> filename,
                   data |-> <<"thumbnail", ThumbnailConfig(thumbnail_type),
                              FileContent(loc, name)>>,
                   trace |-> <<"get_thumbnail", "exists">>]
             ELSE [fail("ThumbnailError") EXCEPT !.trace = <<"get_thumbnail", "missing">>]
        ELSE [result |-> "ok", filename |-> filename,
              data |-> <<FileContent(loc, name)>>, trace |-> <<>>]

\* get_stored_upload_file_data(stored_upload, thumbnail_type).  thumbnail_type
\* "none" is None; thumbOk: the thumbnail get_thumbnail(...) gave exists.
\* trace: the call of get_thumbnail, when it is made, and what it gave.
get_stored_upload_file_data(stored_upload, thumbnail_type, thumbOk) ==
    LET backend == InitIfNeeded.storage_backend
        loc == StoreLoc(backend)
        name == stored_upload.file
        filename == Basename(name)
        fail(e) == [result |-> e, filename |-> <<>>, data |-> <<>>, trace |-> <<>>]
    IN  IF backend = 0 /\ ~FileStorePathOk THEN fail("ConfigurationError")
        ELSE IF ~FileExists(loc, name) THEN fail("FileNotFoundError")
        ELSE IF /\ is_image_for_thumbnail(filename)
                /\ thumbnail_type # "none"
                /\ THUMBNAIL_SIZES # {}
        THEN IF thumbOk
             THEN [result |-> "ok", filename |-> filename,
                   data |-> <<"thumbnail", ThumbnailConfig(thumbnail_type),
                              FileContent(loc, name)>>,
                   trace |-> <<"get_thumbnail", "exists">>]
             ELSE [result |-> "ok", filename |-> filename,
                   data |-> <<FileContent(loc, name)>>,
                   trace |-> <<"get_thumbnail", "missing">>]
        ELSE [result |-> "ok", filename |-> filename,
              data |-> <<FileContent(loc, name)>>, trace |-> <<>>]

\* ----------------------------------------------------- delete_stored_upload
\* delete_stored_upload that removes the file whatever delete_file says.
delete_stored_upload_ignores_flag(upload_id, delete_file, removeFails) ==
    LET got == get_stored_upload(upload_id)
        su == got.su
        loc == StoreLoc(InitIfNeeded.storage_backend)
    IN  IF got.result # "ok"
        THEN [result |-> got.result, su |-> su, stored |-> stored, files |-> files,
              backend_used |-> FALSE]
        ELSE [result |-> "True", su |-> su, stored |-> stored \ {su},
              files |-> {f \in files : ~(f.loc = loc /\ f.name = su.file)},
              backend_used |-> TRUE]

\* delete_stored_upload that looks for the file before it deletes the record:
\* with the file missing the record is kept.
delete_stored_upload_checks_first(upload_id, delete_file, removeFails) ==
    LET got == get_stored_upload(upload_id)
        su == got.su
        backend == InitIfNeeded.storage_backend
        loc == StoreLoc(backend)
        deleted == stored \ {su}
        out(e, st, fs, touched) ==
            [result |-> e, su |-> su, stored |-> st, files |-> fs,
             backend_used |-> touched]
    IN  IF got.result # "ok" THEN out(got.result, stored, files, FALSE)
        ELSE IF ~delete_file THEN out("True", deleted, files, FALSE)
        ELSE IF backend = 0 /\ ~FileStorePathOk
        THEN out("ConfigurationError", stored, files, TRUE)
        ELSE IF ~FileExists(loc, su.file)
        THEN out("FileNotFoundError", stored, files, TRUE)
        ELSE IF backend = 0 /\ removeFails
        THEN out("OSError", deleted, files, TRUE)
        ELSE out("True", deleted,
                 {f \in files : ~(f.loc = loc /\ f.name = su.file)}, TRUE)

\* delete_stored_upload that keeps the record when the file is to be kept.
delete_stored_upload_keeps_record(upload_id, delete_file, removeFails) ==
    LET got == get_stored_upload(upload_id)
        su == got.su
        backend == InitIfNeeded.storage_backend
        loc == StoreLoc(backend)
        deleted == stored \ {su}
        out(e, st, fs, touched) ==
            [result |-> e, su |-> su, stored |-> st, files |-> fs,
             backend_used |-> touched]
    IN  IF got.result # "ok" THEN out(got.result, stored, files, FALSE)
        ELSE IF ~delete_file THEN out("True", stored, files, FALSE)
        ELSE IF backend = 0 /\ ~FileStorePathOk
        THEN out("ConfigurationError", deleted, files, TRUE)
        ELSE IF ~FileExists(loc, su.file)
        THEN out("FileNotFoundError", deleted, files, TRUE)
        ELSE IF backend = 0 /\ removeFails
        THEN out("OSError", deleted, files, TRUE)
        ELSE out("True", deleted,
                 {f \in files : ~(f.loc = loc /\ f.name = su.file)}, TRUE)

\* delete_stored_upload(upload_id, delete_file).  removeFails: os.remove
\* raises OSError.  Gives the outcome, the Stored Upload table and the stores
\* afterwards, and whether the storage backend was looked at.
delete_stored_upload(upload_id, delete_file, removeFails) ==
    LET got == get_stored_upload(upload_id)
        su == got.su
        backend == InitIfNeeded.storage_backend
        loc == StoreLoc(backend)
        deleted == stored \ {su}
        out(e, st, fs, touched) ==
            [result |-> e, su |-> su, stored |-> st, files |-> fs,
             backend_used |-> touched]
    IN  IF got.result # "ok" THEN out(got.result, stored, files, FALSE)
        ELSE IF ~delete_file THEN out("True", deleted, files, FALSE)
        ELSE IF backend = 0 /\ ~FileStorePathOk
        THEN out("ConfigurationError", deleted, files, TRUE)
        ELSE IF ~FileExists(loc, su.file)
        THEN out("FileNotFoundError", deleted, files, TRUE)
        ELSE IF backend = 0 /\ removeFails
        THEN out("OSError", deleted, files, TRUE)
        ELSE out("True", deleted,
                 {f \in files : ~(f.loc = loc /\ f.name = su.file)}, TRUE)

\* ------------------------------------------------------------------ revert
\* The identifier format of the HTTP-facing operations: the exact length and
\* every character of the alphabet.
format_valid(i) == Len(i) = IdLen /\ \A n \in 1..Len(i) : i[n] \in Alphabet

\* The character codes of the characters the model's identifiers are made of.
Ord ==
    [c \in {"a", "b", "c", "d", "e", "f", "g", "n", "p", "/", ".", "0", "\n",
            "A", "D", "I", "L", "N", "V"} |->
        CASE c = "\n" -> 10 [] c = "." -> 46 [] c = "/" -> 47 [] c = "0" -> 48
          [] c = "A" -> 65 [] c = "D" -> 68 [] c = "I" -> 73 [] c = "L" -> 76
          [] c = "N" -> 78 [] c = "V" -> 86
          [] c = "a" -> 97 [] c = "b" -> 98 [] c = "c" -> 99 [] c = "d" -> 100
          [] c = "e" -> 101 [] c = "f" -> 102 [] c = "g" -> 103
          [] c = "n" -> 110 [] c = "p" -> 112]

\* The character of each code.
Chr == [n \in {Ord[c] : c \in DOMAIN Ord} |-> CHOOSE c \in DOMAIN Ord : Ord[c] = n]

\* str.encode() and bytes.decode(): a byte string is the sequence of codes.
Encode(str) == [i \in 1..Len(str) |-> Ord[str[i]]]

Decode(bytes) == [i \in 1..Len(bytes) |-> Chr[bytes[i]]]

\* The body of a revert request: the identifier as text or as bytes.
AsText(str) == [type |-> "str", value |-> str]

AsBytes(str) == [type |-> "bytes", value |-> Encode(str)]

\* The identifier in the body of a request, decoded when the body is bytes.
RequestId(data) == IF data.type = "bytes" THEN Decode(data.value) ELSE data.value

RequestTrace(data) == IF data.type = "bytes" THEN <<"decode">> ELSE <<>>

\* The responses of the revert operation: status and body.
Response(status, upload_id, trace) ==
    [result |-> status, upload_id |-> upload_id, trace |-> trace,
     body |-> CASE status = "400" -> <<"The provided data is invalid.">>
                [] status = "404" -> <<"The specified file does not exist.">>
                [] status = "500" -> <<"StorageBackendError">>
                [] OTHER -> <<>>]

\* revert of an identifier: the identifier is checked, the Temporary Upload
\* looked up, its artifact in temporary storage deleted and then the record;
\* the record stays when deleting the artifact fails (removeFails).
revert_upload(upload_id, trace, removeFails) ==
    LET unchanged(status) ==
            Response(status, upload_id, trace) @@ [tmp |-> tmp, files |-> files]
    IN  IF ~format_valid(upload_id) THEN unchanged("400")
        ELSE IF TmpGet(upload_id) = {} THEN unchanged("404")
        ELSE
            LET tu == CHOOSE t \in TmpGet(upload_id) : TRUE
            IN  IF removeFails /\ FileExists(cfg.UPLOAD_TMP, tu.file)
                THEN unchanged("500")
                ELSE Response("204", upload_id, trace)
                     @@ [tmp |-> tmp \ {tu},
                         files |-> {f \in files :
                                      ~(f.loc = cfg.UPLOAD_TMP /\ f.name = tu.file)}]

\* revert that removes the record and leaves the artifact where it is.
revert_keeps_artifact(data, removeFails) ==
    \* the files of before the call, whatever the revert did to them
    [revert_upload(RequestId(data), RequestTrace(data), removeFails)
        EXCEPT !.files = files]

\* revert that answers an identifier without a Temporary Upload as a success.
revert_missing_is_success(data, removeFails) ==
    IF revert_upload(RequestId(data), RequestTrace(data), removeFails).result = "404"
    THEN Response("204", RequestId(data), RequestTrace(data))
         @@ [tmp |-> tmp, files |-> files]
    ELSE revert_upload(RequestId(data), RequestTrace(data), removeFails)

\* revert(data): the request body is decoded when it is bytes, then the
\* identifier reverted.
revert(data, removeFails) ==
    revert_upload(RequestId(data), RequestTrace(data), removeFails)

\* ------------------------------------------------------------------ state
Init ==
    /\ cfg \in Configs
    /\ tmp = {}
    /\ stored = {}
    /\ files = {}
    /\ storage_backend_initialised = FALSE
    /\ storage_backend = 0
    /\ assembled = [u \in {} |-> "bytes"]
    /\ last = NoCall
    /\ pc = Idle

\* A client upload completes: a fresh upload id, a Temporary Upload record
\* and its artifact in temporary storage under a fresh name: one that is not
\* in use there and that no record refers to.
Upload ==
    \E k \in UploadKinds :
        LET u == Rep(IdChars[Cardinality(used) + 1], IdLen)
        IN  /\ Cardinality(used) < MaxUploads
            /\ ~FileExists(cfg.UPLOAD_TMP, k.file)
            /\ \A r \in tmp \cup stored : r.file # k.file
            /\ tmp' = tmp \cup {[upload_id |-> u, file |-> k.file,
                                 uploaded |-> Cardinality(used) + 1,
                                 uploaded_by |-> k.uploaded_by]}
            /\ files' = files \cup {[loc |-> cfg.UPLOAD_TMP, name |-> k.file,
                                     content |-> k.content]}
            /\ assembled' = [x \in used \cup {u} |->
                                IF x = u THEN k.content ELSE assembled[x]]
            /\ last' = [NoCall EXCEPT !.op = "upload", !.id = u, !.result = "ok"]
            /\ UNCHANGED <<pc, cfg, stored, storage_backend_initialised, storage_backend>>

StoreUpload ==
    \E upload_id \in Inputs :
    \E fault \in (IF TmpGet(upload_id) # {} THEN {"none", "save", "delete"}
                  ELSE {"none"}) :
        \E r \in {store_upload(upload_id, fault = "save", fault = "delete")},
           g \in {InitIfNeeded} :
            /\ tmp' = r.tmp
            /\ stored' = r.stored
            /\ storage_backend' = g.storage_backend
            /\ storage_backend_initialised' = g.storage_backend_initialised
            /\ last' = [NoCall EXCEPT !.op = "store_upload", !.id = upload_id,
                                      !.result = r.result, !.su = r.su,
                                      !.trace = r.trace]
            /\ UNCHANGED <<pc, cfg, files, assembled>>

GetStoredUpload ==
    \E upload_id \in Inputs :
        \E r \in {get_stored_upload(upload_id)} :
            /\ last' = [NoCall EXCEPT !.op = "get_stored_upload", !.id = upload_id,
                                      !.result = r.result, !.su = r.su,
                                      !.trace = r.trace]
            /\ UNCHANGED <<pc, cfg, tmp, stored, files, storage_backend_initialised,
                           storage_backend, assembled>>

\* get_stored_upload_file_data that takes the file out of the store as it
\* reads it.
GetStoredUploadFileData_takes_file ==
    \E stored_upload \in stored :
        /\ files' = {f \in files : f.name # stored_upload.file}
        /\ last' = [NoCall EXCEPT !.op = "get_stored_upload_file_data",
                                  !.su = stored_upload]
        /\ UNCHANGED <<pc, cfg, tmp, stored, storage_backend_initialised,
                       storage_backend, assembled>>

GetStoredUploadFileData ==
    \E stored_upload \in stored, thumbnail_type \in {"none", "small", "huge"} :
    \E thumbOk \in (IF thumbnail_type = "none" THEN {FALSE} ELSE BOOLEAN) :
        \E r \in {get_stored_upload_file_data(stored_upload, thumbnail_type, thumbOk)},
           g \in {InitIfNeeded} :
            /\ storage_backend' = g.storage_backend
            /\ storage_backend_initialised' = g.storage_backend_initialised
            /\ last' = [NoCall EXCEPT !.op = "get_stored_upload_file_data",
                                      !.su = stored_upload,
                                      !.thumbnail_type = thumbnail_type,
                                      !.result = r.result,
                                      !.filename = r.filename, !.data = r.data,
                                      !.trace = r.trace]
            /\ UNCHANGED <<pc, cfg, tmp, stored, files, assembled>>

DeleteStoredUpload ==
    \E upload_id \in Inputs, delete_file \in BOOLEAN :
    \E removeFails \in (IF delete_file /\ StoredGetById(upload_id) \cup
                                          StoredGetByFile(upload_id) # {}
                        THEN BOOLEAN ELSE {FALSE}) :
        \E r \in {delete_stored_upload(upload_id, delete_file, removeFails)} :
        \E g \in {IF r.backend_used THEN InitIfNeeded
                   ELSE [storage_backend |-> storage_backend,
                         storage_backend_initialised |-> storage_backend_initialised]} :
            /\ stored' = r.stored
            /\ files' = r.files
            /\ storage_backend' = g.storage_backend
            /\ storage_backend_initialised' = g.storage_backend_initialised
            /\ last' = [NoCall EXCEPT !.op = "delete_stored_upload",
                                      !.id = upload_id, !.delete_file = delete_file,
                                      !.result = r.result, !.su = r.su]
            /\ UNCHANGED <<pc, cfg, tmp, assembled>>

Revert ==
    \E upload_id \in Inputs :
    \E removeFails \in (IF TmpGet(upload_id) # {} THEN BOOLEAN ELSE {FALSE}),
       data \in {AsText(upload_id)}
                 \cup (IF upload_id \in Ids THEN {AsBytes(upload_id)} ELSE {}) :
        \E r \in {revert(data, removeFails)} :
            /\ tmp' = r.tmp
            /\ files' = r.files
            /\ last' = [NoCall EXCEPT !.op = "revert", !.id = r.upload_id,
                                      !.result = r.result, !.data = r.body,
                                      !.trace = r.trace]
            /\ UNCHANGED <<pc, cfg, stored, storage_backend_initialised,
                           storage_backend, assembled>>

Next ==
    \/ Upload
    \/ StoreUpload
    \/ GetStoredUpload
    \/ GetStoredUploadFileData
    \/ DeleteStoredUpload
    \/ Revert

Spec == Init /\ [][Next]_vars

\* The api under local storage with an unusable FILE_STORE_PATH.
InitBadStorePath ==
    /\ cfg \in BadStorePathConfigs
    /\ tmp = {}
    /\ stored = {}
    /\ files = {}
    /\ storage_backend_initialised = FALSE
    /\ storage_backend = 0
    /\ assembled = [u \in {} |-> "bytes"]
    /\ last = NoCall
    /\ pc = Idle

SpecBadStorePath == InitBadStorePath /\ [][Next]_vars

\* ----------------------------------------- store_upload and revert, step by step
\* A store_upload and a revert run as two workers; each persistence or
\* storage operation is one step, and nothing orders the steps of the two.

\* store_upload up to the lookup of the Temporary Upload: lazy initialisation,
\* format check, TemporaryUpload.objects.get.
StoreBegin ==
    \E upload_id \in Ids :
    \E r \in {store_upload(upload_id, FALSE, FALSE)}, g \in {InitIfNeeded} :
        /\ pc.store.at = "idle"
        /\ storage_backend' = g.storage_backend
        /\ storage_backend_initialised' = g.storage_backend_initialised
        /\ IF TmpGet(upload_id) = {}
           THEN /\ last' = [NoCall EXCEPT !.op = "store_upload", !.id = upload_id,
                                          !.result = r.result, !.trace = r.trace]
                /\ pc' = pc
           ELSE /\ pc' = [pc EXCEPT !.store =
                            [at |-> "save",
                             temp_upload |-> CHOOSE t \in TmpGet(upload_id) : TRUE]]
                /\ last' = last
        /\ UNCHANGED <<cfg, tmp, stored, files, assembled>>

\* su = StoredUpload(...); su.save()
StoreSave ==
    \E su \in {NewStoredUpload(pc.store.temp_upload)} :
        /\ pc.store.at = "save"
        /\ IF SaveViolatesUnique(su)
           THEN /\ stored' = stored
                /\ pc' = [pc EXCEPT !.store = Idle.store]
                /\ last' = [NoCall EXCEPT !.op = "store_upload", !.id = su.upload_id,
                                          !.result = "Error:save",
                                          !.trace = <<"tmp.get", "su.save">>]
           ELSE /\ stored' = stored \cup {su}
                /\ pc' = [pc EXCEPT !.store.at = "delete"]
                /\ last' = last
        /\ UNCHANGED <<cfg, tmp, files, storage_backend_initialised, storage_backend,
                       assembled>>

\* temp_upload.delete(); return su
StoreDeleteTemp ==
    \E su \in {NewStoredUpload(pc.store.temp_upload)} :
        /\ pc.store.at = "delete"
        /\ tmp' = tmp \ {pc.store.temp_upload}
        /\ pc' = [pc EXCEPT !.store = Idle.store]
        /\ last' = [NoCall EXCEPT !.op = "store_upload", !.id = su.upload_id,
                                  !.result = "ok", !.su = su,
                                  !.trace = <<"tmp.get", "su.save", "tmp.delete">>]
        /\ UNCHANGED <<cfg, stored, files, storage_backend_initialised,
                       storage_backend, assembled>>

\* revert up to the lookup of the Temporary Upload.
RevertBegin ==
    \E upload_id \in Ids :
    \E r \in {revert(AsText(upload_id), FALSE)} :
        /\ pc.revert.at = "idle"
        /\ IF r.result # "204"
           THEN /\ last' = [NoCall EXCEPT !.op = "revert", !.id = r.upload_id,
                                          !.result = r.result, !.data = r.body]
                /\ pc' = pc
           ELSE /\ pc' = [pc EXCEPT !.revert =
                            [at |-> "remove",
                             tu |-> CHOOSE t \in TmpGet(upload_id) : TRUE]]
                /\ last' = last
        /\ UNCHANGED <<cfg, tmp, stored, files, storage_backend_initialised,
                       storage_backend, assembled>>

\* revert deletes the artifact in temporary storage.
RevertRemoveArtifact ==
    /\ pc.revert.at = "remove"
    /\ files' = {f \in files :
                    ~(f.loc = cfg.UPLOAD_TMP /\ f.name = pc.revert.tu.file)}
    /\ pc' = [pc EXCEPT !.revert.at = "record",
                        !.reverted = @ \cup {pc.revert.tu.upload_id}]
    /\ UNCHANGED <<cfg, tmp, stored, storage_backend_initialised, storage_backend,
                   assembled, last>>

\* revert deletes the record and answers 204.
RevertDeleteRecord ==
    /\ pc.revert.at = "record"
    /\ tmp' = tmp \ {pc.revert.tu}
    /\ pc' = [pc EXCEPT !.revert = Idle.revert]
    /\ last' = [NoCall EXCEPT !.op = "revert", !.id = pc.revert.tu.upload_id,
                              !.result = "204"]
    /\ UNCHANGED <<cfg, stored, files, storage_backend_initialised,
                   storage_backend, assembled>>

NextInterleaved ==
    \/ Upload
    \/ StoreBegin
    \/ StoreSave
    \/ StoreDeleteTemp
    \/ RevertBegin
    \/ RevertRemoveArtifact
    \/ RevertDeleteRecord

SpecInterleaved == Init /\ [][NextInterleaved]_vars

\* ----------------------------------------- store_upload by two workers at once
\* The try block of store_upload, one statement at a time, with
\* temp_upload.delete() made before su.save().
store_upload_step_deletes_first(at, temp_upload, fails) ==
    LET su == NewStoredUpload(temp_upload)
    IN  IF at = "save"
        THEN IF fails
             THEN [at |-> "idle", result |-> "Error:delete", su |-> NoRec,
                   tmp |-> tmp, stored |-> stored]
             ELSE [at |-> "delete", result |-> "none", su |-> NoRec,
                   tmp |-> tmp \ {temp_upload}, stored |-> stored]
        ELSE IF fails \/ SaveViolatesUnique(su)
             THEN [at |-> "idle", result |-> "Error:save", su |-> NoRec,
                   tmp |-> tmp, stored |-> stored]
             ELSE [at |-> "idle", result |-> "ok", su |-> su,
                   tmp |-> tmp, stored |-> stored \cup {su}]

\* The same with a save that writes over a Stored Upload of the same upload_id
\* instead of being refused.
store_upload_step_saves_over(at, temp_upload, fails) ==
    LET su == NewStoredUpload(temp_upload)
    IN  IF at = "save"
        THEN IF fails
             THEN [at |-> "idle", result |-> "Error:save", su |-> NoRec,
                   tmp |-> tmp, stored |-> stored]
             ELSE [at |-> "delete", result |-> "none", su |-> NoRec,
                   tmp |-> tmp,
                   stored |-> (stored \ StoredGetById(su.upload_id)) \cup {su}]
        ELSE IF fails
             THEN [at |-> "idle", result |-> "Error:delete", su |-> NoRec,
                   tmp |-> tmp, stored |-> stored]
             ELSE [at |-> "idle", result |-> "ok", su |-> su,
                   tmp |-> tmp \ {temp_upload}, stored |-> stored]

\* The try block of store_upload, one statement at a time.  at "save":
\* su = StoredUpload(...); su.save().  at "delete": temp_upload.delete();
\* return su.  fails: the persistence layer raises on this statement.  Deleting
\* a row that is already gone deletes nothing and is no error.  Gives the
\* tables afterwards, where the call stands and, when it has ended, its outcome.
store_upload_step(at, temp_upload, fails) ==
    LET su == NewStoredUpload(temp_upload)
    IN  IF at = "save"
        THEN IF fails \/ SaveViolatesUnique(su)
             THEN [at |-> "idle", result |-> "Error:save", su |-> NoRec,
                   tmp |-> tmp, stored |-> stored]
             ELSE [at |-> "delete", result |-> "none", su |-> NoRec,
                   tmp |-> tmp, stored |-> stored \cup {su}]
        ELSE IF fails
             THEN [at |-> "idle", result |-> "Error:delete", su |-> NoRec,
                   tmp |-> tmp, stored |-> stored]
             ELSE [at |-> "idle", result |-> "ok", su |-> su,
                   tmp |-> tmp \ {temp_upload}, stored |-> stored]

\* A worker calls store_upload: lazy initialisation, the format check and
\* TemporaryUpload.objects.get; the call ends here when it raises.
StoreUploadLookup(w) ==
    \E upload_id \in Ids :
    \E r \in {store_upload(upload_id, FALSE, FALSE)}, g \in {InitIfNeeded} :
        /\ pc.calls[w].at = "idle"
        /\ storage_backend' = g.storage_backend
        /\ storage_backend_initialised' = g.storage_backend_initialised
        /\ IF TmpGet(upload_id) = {}
           THEN /\ last' = [NoCall EXCEPT !.op = "store_upload", !.id = upload_id,
                                          !.result = r.result, !.trace = r.trace]
                /\ pc' = pc
           ELSE /\ pc' = [pc EXCEPT !.calls[w] =
                            [at |-> "save",
                             temp_upload |-> CHOOSE t \in TmpGet(upload_id) : TRUE]]
                /\ last' = last
        /\ UNCHANGED <<cfg, tmp, stored, files, assembled>>

\* A worker runs the next statement of the try block of its store_upload.
StoreUploadTry(w) ==
    \E fails \in BOOLEAN :
    \E r \in {store_upload_step(pc.calls[w].at, pc.calls[w].temp_upload, fails)} :
        /\ pc.calls[w].at # "idle"
        /\ tmp' = r.tmp
        /\ stored' = r.stored
        /\ IF r.at = "idle"
           THEN /\ pc' = [pc EXCEPT
                            !.calls[w] = IdleCalls.calls[w],
                            !.returned[pc.calls[w].temp_upload.upload_id] =
                                IF r.result = "ok" THEN @ + 1 ELSE @]
                /\ last' = [NoCall EXCEPT !.op = "store_upload",
                                          !.id = pc.calls[w].temp_upload.upload_id,
                                          !.result = r.result, !.su = r.su]
           ELSE /\ pc' = [pc EXCEPT !.calls[w].at = r.at]
                /\ last' = last
        /\ UNCHANGED <<cfg, files, storage_backend_initialised, storage_backend,
                       assembled>>

InitTwoStores ==
    /\ cfg \in Configs
    /\ tmp = {}
    /\ stored = {}
    /\ files = {}
    /\ storage_backend_initialised = FALSE
    /\ storage_backend = 0
    /\ assembled = [u \in {} |-> "bytes"]
    /\ last = NoCall
    /\ pc = IdleCalls

NextTwoStores ==
    \/ Upload
    \/ \E w \in Workers : StoreUploadLookup(w)
    \/ \E w \in Workers : StoreUploadTry(w)

SpecTwoStores == InitTwoStores /\ [][NextTwoStores]_vars

\* ------------------------------------- lazy initialisation by two workers
\* store_upload and get_stored_upload_file_data begin with
\* "if not storage_backend_initialised: _init_storage_backend()".  Nothing
\* orders the test of the flag, the two assignments of _init_storage_backend
\* and the same statements of another worker.

\* A worker enters store_upload or get_stored_upload_file_data and tests the
\* flag.
EnterApi(w) ==
    \E op \in {"store_upload", "get_stored_upload_file_data"} :
    \E upload_id \in (IF op = "store_upload" THEN Ids ELSE {<<>>}),
       stored_upload \in (IF op = "store_upload" THEN {NoRec} ELSE stored) :
        /\ pc.init[w].at = "idle"
        /\ pc' = [pc EXCEPT !.init[w] =
                    [at |-> IF storage_backend_initialised THEN "body"
                            ELSE "storage_backend",
                     op |-> op, id |-> upload_id, su |-> stored_upload]]
        /\ UNCHANGED <<cfg, tmp, stored, files, storage_backend_initialised,
                       storage_backend, assembled, last>>

\* storage_backend = _get_storage_backend(storage_module_name)
InitAssignBackend(w) ==
    /\ pc.init[w].at = "storage_backend"
    /\ storage_backend' = _get_storage_backend(cfg.STORAGES_BACKEND)
    /\ pc' = [pc EXCEPT !.init[w].at = "storage_backend_initialised"]
    /\ UNCHANGED <<cfg, tmp, stored, files, storage_backend_initialised,
                   assembled, last>>

\* storage_backend_initialised = True
InitAssignFlag(w) ==
    /\ pc.init[w].at = "storage_backend_initialised"
    /\ storage_backend_initialised' = TRUE
    /\ pc' = [pc EXCEPT !.init[w].at = "body"]
    /\ UNCHANGED <<cfg, tmp, stored, files, storage_backend, assembled, last>>

\* The rest of the worker's call.
ApiBody(w) ==
    /\ pc.init[w].at = "body"
    /\ pc' = [pc EXCEPT !.init[w] = IdleInit.init[w]]
    /\ IF pc.init[w].op = "store_upload"
       THEN \E r \in {store_upload(pc.init[w].id, FALSE, FALSE)} :
                /\ tmp' = r.tmp
                /\ stored' = r.stored
                /\ last' = [NoCall EXCEPT !.op = "store_upload",
                                          !.id = pc.init[w].id,
                                          !.result = r.result, !.su = r.su,
                                          !.trace = r.trace]
       ELSE \E r \in {get_stored_upload_file_data(pc.init[w].su, "none", FALSE)} :
                /\ last' = [NoCall EXCEPT !.op = "get_stored_upload_file_data",
                                          !.su = pc.init[w].su,
                                          !.result = r.result,
                                          !.filename = r.filename, !.data = r.data,
                                          !.trace = r.trace]
                /\ UNCHANGED <<tmp, stored>>
    /\ UNCHANGED <<cfg, files, storage_backend_initialised, storage_backend,
                   assembled>>

InitLazyInit ==
    /\ cfg \in Configs
    /\ tmp = {}
    /\ stored = {}
    /\ files = {}
    /\ storage_backend_initialised = FALSE
    /\ storage_backend = 0
    /\ assembled = [u \in {} |-> "bytes"]
    /\ last = NoCall
    /\ pc = IdleInit

NextLazyInit ==
    \/ Upload
    \/ DeleteStoredUpload
    \/ \E w \in Workers : EnterApi(w)
    \/ \E w \in Workers : InitAssignBackend(w)
    \/ \E w \in Workers : InitAssignFlag(w)
    \/ \E w \in Workers : ApiBody(w)

SpecLazyInit == InitLazyInit /\ [][NextLazyInit]_vars

\* ---------------------------------------------------------- chunked uploads
\* Byte counts go beyond 2^31, so a count is its four 16-bit limbs, the least
\* significant first: 64 bits.
Limb == 65536

Bytes(n) == <<n % Limb, n \div Limb, 0, 0>>

\* 2^31 and 3221225472 = 3 * 2^30.
TwoTo31 == <<0, 32768, 0, 0>>

ThreeGB == <<0, 49152, 0, 0>>

\* a + b, modulo 2^64.
Plus(a, b) ==
    LET s1 == a[1] + b[1]
        s2 == a[2] + b[2] + s1 \div Limb
        s3 == a[3] + b[3] + s2 \div Limb
        s4 == a[4] + b[4] + s3 \div Limb
    IN  <<s1 % Limb, s2 % Limb, s3 % Limb, s4 % Limb>>

\* a < b, from the most significant limb down.
Less(a, b) ==
    \E i \in 1..4 : a[i] < b[i] /\ \A j \in (i + 1)..4 : a[j] = b[j]

\* The total sizes new chunked uploads declare, and the lengths of the chunks
\* delivered.
DeclaredSizes == {Bytes(8192), Bytes(16384), ThreeGB}

ChunkLengths == {Bytes(8192), Bytes(16384)}

\* A column that keeps a signed 32-bit integer: bit 31 and everything above it
\* is lost.
IntegerField(n) == <<n[1], n[2] % 32768, 0, 0>>

\* The column of total_size: a signed 64-bit integer, bit 63 is lost.
BigIntegerField(n) == <<n[1], n[2], n[3], n[4] % 32768>>

\* How many chunks have been delivered for each chunked upload is not part of
\* the state: a chunked upload has received at most MaxChunks chunks of the
\* smallest length.
MayReceive(c) == Less(c.received, Bytes(MaxChunks * 8192))

\* The Chunked Upload State of this upload id, if it has one.
ChunkedGet(upload_id) == {c \in pc.chunked : c.upload_id = upload_id}

\* The state of the Chunked Assembly Engine for this record.
ChunkedState(c) == IF c.received = c.total_size THEN "COMPLETE" ELSE "RECEIVING"

\* A request that starts a chunked upload with a declared total size: a fresh
\* upload id, a Temporary Upload, its Chunked Upload State and an empty
\* staging artifact.
ChunkedInitiate ==
    \E k \in UploadKinds, declared \in DeclaredSizes :
        LET u == Rep(IdChars[Cardinality(used) + 1], IdLen)
        IN  /\ Cardinality(used) < MaxUploads
            /\ ~FileExists(cfg.UPLOAD_TMP, k.file)
            /\ tmp' = tmp \cup {[upload_id |-> u, file |-> k.file,
                                 uploaded |-> Cardinality(used) + 1,
                                 uploaded_by |-> k.uploaded_by]}
            /\ files' = files \cup {[loc |-> cfg.UPLOAD_TMP, name |-> k.file,
                                     content |-> "partial"]}
            /\ assembled' = [x \in used \cup {u} |->
                                IF x = u THEN k.content ELSE assembled[x]]
            /\ pc' = [pc EXCEPT !.chunked = @ \cup
                        {[upload_id |-> u,
                          total_size |-> BigIntegerField(declared),
                          received |-> Bytes(0)]}]
            /\ last' = [NoCall EXCEPT !.op = "chunked_initiate", !.id = u,
                                      !.result = "200", !.data = declared]
            /\ UNCHANGED <<cfg, stored, storage_backend_initialised, storage_backend>>

\* A chunk is delivered for a chunked upload that is receiving: it is refused
\* when it would take the received bytes beyond the declared total, else
\* appended; the upload is complete when the two are equal.
ChunkWrite ==
    \E c \in pc.chunked, length \in ChunkLengths :
        /\ ChunkedState(c) = "RECEIVING"
        /\ MayReceive(c)
        /\ IF Less(c.total_size, Plus(c.received, length))
           THEN /\ pc' = pc
                /\ files' = files
                /\ last' = [NoCall EXCEPT !.op = "chunk", !.id = c.upload_id,
                                          !.result = "IntegrityError",
                                          !.data = length]
           ELSE \E n \in {[c EXCEPT !.received = Plus(c.received, length)]} :
                /\ pc' = [pc EXCEPT !.chunked = (@ \ {c}) \cup {n}]
                /\ files' =
                     IF ChunkedState(n) = "COMPLETE"
                     THEN {IF f.loc = cfg.UPLOAD_TMP /\
                              \E t \in TmpGet(c.upload_id) : t.file = f.name
                           THEN [f EXCEPT !.content = assembled[c.upload_id]]
                           ELSE f : f \in files}
                     ELSE files
                /\ last' = [NoCall EXCEPT !.op = "chunk", !.id = c.upload_id,
                                          !.result = "200", !.data = length]
        /\ UNCHANGED <<cfg, tmp, stored, storage_backend_initialised,
                       storage_backend, assembled>>

\* No chunked upload has been started.
InitChunked ==
    /\ cfg \in Configs
    /\ tmp = {}
    /\ stored = {}
    /\ files = {}
    /\ storage_backend_initialised = FALSE
    /\ storage_backend = 0
    /\ assembled = [u \in {} |-> "bytes"]
    /\ last = NoCall
    /\ pc = [chunked |-> {}]

NextChunked ==
    \/ ChunkedInitiate
    \/ ChunkWrite
    \/ StoreUpload

SpecChunked == InitChunked /\ [][NextChunked]_vars

\* ------------------------------------------- the process and revert views
\* Paths are sequences of components.  BASE_DIR and the places the settings
\* put temporary storage: under BASE_DIR, under it by way of "..", outside it
\* as an absolute path, outside it by way of "..", and next to it under a
\* name BASE_DIR is a prefix of.
BASE_DIR == <<"srv", "app">>

UploadDirs ==
    {<<"srv", "app", "uploads">>,
     <<"srv", "app", "uploads", "..", "tmp">>,
     <<"tmp", "uploads">>,
     <<"srv", "app", "..", "..", "some_dir">>,
     <<"srv", "app2">>}

\* os.path.abspath of an absolute path: "." goes, ".." takes the component
\* before it away (at the root it goes).
RECURSIVE Resolve(_, _)
Resolve(done, path) ==
    IF path = <<>> THEN done
    ELSE IF Head(path) = "." THEN Resolve(done, Tail(path))
    ELSE IF Head(path) = ".."
    THEN Resolve(IF done = <<>> THEN done ELSE SubSeq(done, 1, Len(done) - 1),
                 Tail(path))
    ELSE Resolve(Append(done, Head(path)), Tail(path))

\* The path as written lies under BASE_DIR.
Under(base, path) == Len(path) >= Len(base) /\ SubSeq(path, 1, Len(base)) = base

\* The resolved path lies under BASE_DIR.
Within(base, path) == Under(base, Resolve(<<>>, path))

\* The settings of the views: the location of the storage of temporary
\* uploads and UPLOAD_TMP are set apart or together, as the tests set them.
ViewConfigs ==
    {[STORAGES_BACKEND |-> UNSET, FILE_STORE_PATH |-> "/store",
      UPLOAD_TMP |-> t, location |-> l, ALLOW_EXTERNAL_UPLOAD_DIR |-> a,
      DELETE_UPLOAD_TMP_DIRS |-> d] :
        t \in UploadDirs, l \in {<<"srv", "app", "uploads">>, <<"tmp", "uploads">>},
        a \in BOOLEAN, d \in BOOLEAN}

\* The file ids uploads are stored under, in the directory named by their
\* upload id.
FileIds == {Rep("x", IdLen), Rep("y", IdLen)}

\* os.path.dirname(name)
Dirname(name) ==
    LET slashes == {i \in 1..Len(name) : name[i] = "/"}
    IN  IF slashes = {} THEN <<>>
        ELSE SubSeq(name, 1, (CHOOSE i \in slashes : \A j \in slashes : j <= i) - 1)

\* The process view that compares the paths as they are written.
process_unresolved(upload_id, file_id, content) ==
    IF ~cfg.ALLOW_EXTERNAL_UPLOAD_DIR /\ ~Under(BASE_DIR, cfg.location)
    THEN [result |-> "500", upload_id |-> <<>>, tmp |-> tmp, files |-> files,
          dirs |-> pc.dirs,
          body |-> <<"The file upload path settings are not configured correctly.">>]
    ELSE IF ~cfg.ALLOW_EXTERNAL_UPLOAD_DIR /\ ~Under(BASE_DIR, cfg.UPLOAD_TMP)
    THEN [result |-> "500", upload_id |-> <<>>, tmp |-> tmp, files |-> files,
          dirs |-> pc.dirs,
          body |-> <<"An invalid storage location has been specified.">>]
    ELSE [result |-> "200", upload_id |-> upload_id,
          tmp |-> tmp \cup {[upload_id |-> upload_id,
                              file |-> upload_id \o <<"/">> \o file_id,
                              uploaded |-> Cardinality(used) + 1,
                              uploaded_by |-> "anon"]},
          files |-> files \cup {[loc |-> cfg.UPLOAD_TMP,
                                  name |-> upload_id \o <<"/">> \o file_id,
                                  content |-> content]},
          dirs |-> pc.dirs \cup {upload_id},
          body |-> upload_id]

\* The process view for a single-file upload: unless external directories are
\* allowed, the storage location and the resolved UPLOAD_TMP have to lie
\* under BASE_DIR, else the answer is 500 and nothing is made; then the
\* per-upload directory, the file in it and the Temporary Upload are made and
\* the upload id is the answer.
process(upload_id, file_id, content) ==
    IF ~cfg.ALLOW_EXTERNAL_UPLOAD_DIR /\ ~Within(BASE_DIR, cfg.location)
    THEN [result |-> "500", upload_id |-> <<>>, tmp |-> tmp, files |-> files,
          dirs |-> pc.dirs,
          body |-> <<"The file upload path settings are not configured correctly.">>]
    ELSE IF ~cfg.ALLOW_EXTERNAL_UPLOAD_DIR /\ ~Within(BASE_DIR, cfg.UPLOAD_TMP)
    THEN [result |-> "500", upload_id |-> <<>>, tmp |-> tmp, files |-> files,
          dirs |-> pc.dirs,
          body |-> <<"An invalid storage location has been specified.">>]
    ELSE [result |-> "200", upload_id |-> upload_id,
          tmp |-> tmp \cup {[upload_id |-> upload_id,
                              file |-> upload_id \o <<"/">> \o file_id,
                              uploaded |-> Cardinality(used) + 1,
                              uploaded_by |-> "anon"]},
          files |-> files \cup {[loc |-> cfg.UPLOAD_TMP,
                                  name |-> upload_id \o <<"/">> \o file_id,
                                  content |-> content]},
          dirs |-> pc.dirs \cup {upload_id},
          body |-> upload_id]

\* The per-upload directories left when the directory of this file has been
\* removed, which happens only when no file is in it.
WithoutDirOf(name, fs) ==
    IF \E f \in fs : f.loc = cfg.UPLOAD_TMP /\ Dirname(f.name) = Dirname(name)
    THEN pc.dirs
    ELSE pc.dirs \ {Dirname(name)}

\* revert that removes the per-upload directory whatever the policy.
revert_and_clean_up_always(data, removeFails) ==
    LET r == revert(data, removeFails)
    IN  r @@ [dirs |-> IF r.result = "204"
                       THEN UNION {WithoutDirOf(t.file, r.files) :
                                      t \in TmpGet(r.upload_id)}
                       ELSE pc.dirs]

\* revert followed by the directory cleanup: after a successful revert the
\* per-upload directory is removed when DELETE_UPLOAD_TMP_DIRS asks for it
\* and the directory is empty.
revert_and_clean_up(data, removeFails) ==
    LET r == revert(data, removeFails)
    IN  r @@ [dirs |-> IF r.result = "204" /\ cfg.DELETE_UPLOAD_TMP_DIRS
                       THEN UNION {WithoutDirOf(t.file, r.files) :
                                      t \in TmpGet(r.upload_id)}
                       ELSE pc.dirs]

InitViews ==
    /\ cfg \in ViewConfigs
    /\ tmp = {}
    /\ stored = {}
    /\ files = {}
    /\ storage_backend_initialised = FALSE
    /\ storage_backend = 0
    /\ assembled = [u \in {} |-> "bytes"]
    /\ last = NoCall
    /\ pc = [dirs |-> {}]

\* A client posts a file to the process view.
ProcessView ==
    \E file_id \in FileIds, content \in {"bytes1"} :
    \E r \in {process(Rep(IdChars[Cardinality(used) + 1], IdLen), file_id, content)} :
        /\ Cardinality(used) < MaxUploads
        /\ tmp' = r.tmp
        /\ files' = r.files
        /\ pc' = [pc EXCEPT !.dirs = r.dirs]
        /\ assembled' = IF r.result = "200"
                        THEN [x \in used \cup {r.upload_id} |->
                                IF x = r.upload_id THEN content ELSE assembled[x]]
                        ELSE assembled
        /\ last' = [NoCall EXCEPT !.op = "process", !.id = r.upload_id,
                                  !.result = r.result, !.data = r.body]
        /\ UNCHANGED <<cfg, stored, storage_backend_initialised, storage_backend>>

\* A client sends an upload id to the revert view.
RevertView ==
    \E upload_id \in Ids \cup {<<"I", "N", "V", "A", "L", "I", "D", "I", "D">>} :
    \E removeFails \in (IF TmpGet(upload_id) # {} THEN BOOLEAN ELSE {FALSE}) :
        \E r \in {revert_and_clean_up(AsText(upload_id), removeFails)} :
            /\ tmp' = r.tmp
            /\ files' = r.files
            /\ pc' = [pc EXCEPT !.dirs = r.dirs]
            /\ last' = [NoCall EXCEPT !.op = "revert", !.id = r.upload_id,
                                      !.result = r.result, !.data = r.body,
                                      !.trace = r.trace]
            /\ UNCHANGED <<cfg, stored, storage_backend_initialised,
                           storage_backend, assembled>>

NextViews ==
    \/ ProcessView
    \/ RevertView

SpecViews == InitViews /\ [][NextViews]_vars

\* ------------------------------------------------------------ S3MoveStorage
\* The keys temporary uploads have in the bucket, and the names save is asked
\* to store them under.
TempKeys == {<<"t", "/", "a">>, <<"t", "/", "b">>}

SaveNames == {<<"s", "/", "a">>, <<"s", "/", "/", "a">>, <<"s", "\\", "b">>}

\* posixpath.normpath on these names: a slash that follows a slash goes.
RECURSIVE NormPath(_)
NormPath(name) ==
    IF Len(name) < 2 THEN name
    ELSE IF name[1] = "/" /\ name[2] = "/" THEN NormPath(Tail(name))
    ELSE <<name[1]>> \o NormPath(Tail(name))

\* self._clean_name(name): normpath, then backslashes become slashes.
_clean_name(name) ==
    [i \in 1..Len(NormPath(name)) |->
        IF NormPath(name)[i] = "\\" THEN "/" ELSE NormPath(name)[i]]

\* self._normalize_name(cleaned_name): the key under the storage's location,
\* which is the root of the bucket.
_normalize_name(cleaned_name) ==
    IF Len(cleaned_name) > 0 /\ cleaned_name[1] = "/" THEN Tail(cleaned_name)
    ELSE cleaned_name

\* The bucket without the object of this key.
BucketWithout(key) == {f \in files : ~(f.loc = "bucket" /\ f.name = key)}

\* save that deletes the source key after the copy.
S3MoveStorage_save_deletes_source(name, content_name) ==
    LET cleaned_name == _clean_name(name)
        key == _normalize_name(cleaned_name)
    IN  IF ~FileExists("bucket", content_name)
        THEN [result |-> "ClientError", filename |-> <<>>, files |-> files]
        ELSE [result |-> "ok", filename |-> cleaned_name,
              files |-> {f \in BucketWithout(key) :
                            ~(f.loc = "bucket" /\ f.name = content_name)}
                        \cup {[loc |-> "bucket", name |-> key,
                               content |-> FileContent("bucket", content_name)]}]

\* S3MoveStorage.save(name, content): copy_from of the key content.name to
\* the key of name; gives the cleaned name.  copy_from of a key that does not
\* exist raises.
S3MoveStorage_save(name, content_name) ==
    LET cleaned_name == _clean_name(name)
        key == _normalize_name(cleaned_name)
    IN  IF ~FileExists("bucket", content_name)
        THEN [result |-> "ClientError", filename |-> <<>>, files |-> files]
        ELSE [result |-> "ok", filename |-> cleaned_name,
              files |-> BucketWithout(key)
                        \cup {[loc |-> "bucket", name |-> key,
                               content |-> FileContent("bucket", content_name)]}]

\* The settings name the remote backend.
InitS3 ==
    /\ cfg = [STORAGES_BACKEND |-> "s3", UPLOAD_TMP |-> "bucket",
              FILE_STORE_PATH |-> UNSET]
    /\ tmp = {}
    /\ stored = {}
    /\ files = {}
    /\ storage_backend_initialised = FALSE
    /\ storage_backend = 0
    /\ assembled = [u \in {} |-> "bytes"]
    /\ last = NoCall
    /\ pc = Idle

\* A temporary upload is written to the bucket under a temporary key.
S3Put ==
    \E key \in TempKeys, content \in {"bytes1", "bytes2"} :
        /\ files' = BucketWithout(key)
                    \cup {[loc |-> "bucket", name |-> key, content |-> content]}
        /\ last' = [NoCall EXCEPT !.op = "put", !.id = key, !.result = "ok"]
        /\ UNCHANGED <<pc, cfg, tmp, stored, storage_backend_initialised,
                       storage_backend, assembled>>

S3Save ==
    \E name \in SaveNames, content_name \in TempKeys :
    \E r \in {S3MoveStorage_save(name, content_name)} :
        /\ files' = r.files
        /\ last' = [NoCall EXCEPT !.op = "S3MoveStorage.save", !.id = name,
                                  !.result = r.result, !.filename = r.filename,
                                  !.data = <<content_name>>]
        /\ UNCHANGED <<pc, cfg, tmp, stored, storage_backend_initialised,
                       storage_backend, assembled>>

NextS3 ==
    \/ S3Put
    \/ S3Save

SpecS3 == InitS3 /\ [][NextS3]_vars

\* ------------------------------------------- storage_utils.init_storage_backend
\* Every kind of settings: local or remote backend, FILE_STORE_PATH unset,
\* empty, missing, a file, or a directory.
AllConfigs ==
    {[STORAGES_BACKEND |-> b, UPLOAD_TMP |-> "/uploads", FILE_STORE_PATH |-> p] :
        b \in {UNSET, "s3"}, p \in {UNSET, "", "/missing", "/afile", "/store"}}

\* init_storage_backend with the test on FILE_STORE_PATH made when no remote
\* backend is set, and the module's flag set.
init_storage_backend_checks_local ==
    LET backend == _get_storage_backend(cfg.STORAGES_BACKEND)
        raised(e) == [result |-> e, storage_backend |-> storage_backend,
                      storage_backend_initialised |-> storage_backend_initialised]
    IN  IF backend = 0 /\ cfg.FILE_STORE_PATH \in {UNSET, ""}
        THEN raised("ImproperlyConfigured")
        ELSE IF backend = 0 /\ cfg.FILE_STORE_PATH \notin ExistingDirs
        THEN raised("FileNotFoundError")
        ELSE [result |-> "ok", storage_backend |-> storage_backend,
              storage_backend_initialised |-> TRUE]

\* storage_utils.init_storage_backend(): the outcome and the module globals
\* storage_backend and storage_backend_initialised afterwards.  The function
\* declares no global: its assignments are to local variables.
init_storage_backend ==
    LET backend == _get_storage_backend(cfg.STORAGES_BACKEND)
        raised(e) == [result |-> e, storage_backend |-> storage_backend,
                      storage_backend_initialised |-> storage_backend_initialised]
    IN  IF backend # 0 /\ cfg.FILE_STORE_PATH \in {UNSET, ""}
        THEN raised("ImproperlyConfigured")
        ELSE IF backend # 0 /\ cfg.FILE_STORE_PATH \notin ExistingDirs
        THEN raised("FileNotFoundError")
        ELSE [result |-> "ok", storage_backend |-> storage_backend,
              storage_backend_initialised |-> storage_backend_initialised]

\* The module globals of storage_utils after import, under any settings.
InitStorageUtils ==
    /\ cfg \in AllConfigs
    /\ tmp = {}
    /\ stored = {}
    /\ files = {}
    /\ storage_backend_initialised = FALSE
    /\ storage_backend = 0
    /\ assembled = [u \in {} |-> "bytes"]
    /\ last = NoCall
    /\ pc = Idle

\* The application changes its settings.
Reconfigure ==
    /\ cfg' \in AllConfigs \ {cfg}
    /\ UNCHANGED <<pc, tmp, stored, files, storage_backend_initialised,
                   storage_backend, assembled, last>>

InitStorageBackend ==
    \E r \in {init_storage_backend} :
        /\ storage_backend' = r.storage_backend
        /\ storage_backend_initialised' = r.storage_backend_initialised
        /\ last' = [NoCall EXCEPT !.op = "init_storage_backend",
                                  !.result = r.result,
                                  !.data = <<cfg.STORAGES_BACKEND, cfg.FILE_STORE_PATH>>]
        /\ UNCHANGED <<pc, cfg, tmp, stored, files, assembled>>

NextStorageUtils ==
    \/ Reconfigure
    \/ InitStorageBackend

SpecStorageUtils == InitStorageUtils /\ [][NextStorageUtils]_vars

\* ------------------------------------------------- the identifier format check
\* A string is chosen and handed to store_upload or get_stored_upload.
InitFormat ==
    /\ cfg = [STORAGES_BACKEND |-> UNSET, UPLOAD_TMP |-> "/uploads",
              FILE_STORE_PATH |-> "/store"]
    /\ tmp = {}
    /\ stored = {}
    /\ files = {}
    /\ storage_backend_initialised = FALSE
    /\ storage_backend = 0
    /\ assembled = [u \in {} |-> "bytes"]
    /\ last \in {[NoCall EXCEPT !.op = "input", !.id = s] : s \in FormatInputs}
    /\ pc = Idle

FormatStoreUpload ==
    \E r \in {store_upload(last.id, FALSE, FALSE)}, g \in {InitIfNeeded} :
        /\ last.op = "input"
        /\ tmp' = r.tmp
        /\ stored' = r.stored
        /\ storage_backend' = g.storage_backend
        /\ storage_backend_initialised' = g.storage_backend_initialised
        /\ last' = [NoCall EXCEPT !.op = "store_upload", !.id = last.id,
                                  !.result = r.result, !.su = r.su,
                                  !.trace = r.trace]
        /\ UNCHANGED <<pc, cfg, files, assembled>>

FormatGetStoredUpload ==
    \E r \in {get_stored_upload(last.id)} :
        /\ last.op = "input"
        /\ last' = [NoCall EXCEPT !.op = "get_stored_upload", !.id = last.id,
                                  !.result = r.result, !.su = r.su,
                                  !.trace = r.trace]
        /\ UNCHANGED <<pc, cfg, tmp, stored, files, storage_backend_initialised,
                       storage_backend, assembled>>

NextFormat ==
    \/ FormatStoreUpload
    \/ FormatGetStoredUpload

SpecFormat == InitFormat /\ [][NextFormat]_vars

\* ================================================================== claims
\* The Stored Upload records with this upload_id after the step.
StoredAfter(upload_id) == {r \in stored' : r.upload_id = upload_id}

TmpAfter(upload_id) == {t \in tmp' : t.upload_id = upload_id}

\* C1: store_upload with an upload_id that fails the format check raises the
\* invalid-format ValueError before any lookup of a Temporary or Stored
\* Upload is made, and leaves the Temporary Uploads, the Stored Uploads and
\* the stored files as they were.
C1_InvalidFormatRaisesBeforeLookup ==
    [][(last'.op = "store_upload" /\ ~IdFmtMatch(last'.id))
        => /\ last'.result = "ValueError:format"
           /\ last'.trace = <<>>
           /\ tmp' = tmp /\ stored' = stored /\ files' = files]_vars

\* C1's case: an ill-formed id was refused while there were records and files.
C1_Witness ==
    /\ last.op = "store_upload"
    /\ ~IdFmtMatch(last.id)
    /\ last.result = "ValueError:format"
    /\ tmp # {} /\ stored # {} /\ files # {}

\* C2: store_upload with a well-formed upload_id that no Temporary Upload has
\* fails with the ValueError "Record for the specified upload_id doesn't
\* exist", and the set of Stored Uploads is the same before and after.
C2_UnknownIdNotFoundNothingStored ==
    [][(last'.op = "store_upload" /\ IdFmtMatch(last'.id) /\ TmpGet(last'.id) = {})
        => /\ last'.result = "ValueError:norecord"
           /\ stored' = stored]_vars

\* C2's case: a well-formed id without a Temporary Upload was refused.
C2_Witness ==
    /\ last.op = "store_upload"
    /\ IdFmtMatch(last.id)
    /\ last.result = "ValueError:norecord"
    /\ tmp # {}

\* C3: when store_upload(U) returns, exactly one Stored Upload has upload_id
\* U, its upload_id, file, uploaded and uploaded_by are those of the Temporary
\* Upload it was promoted from, and no Temporary Upload has upload_id U.
C3_SuccessMovesTheRecord ==
    [][(last'.op = "store_upload" /\ last'.result = "ok")
        => /\ Cardinality(StoredAfter(last'.id)) = 1
           /\ Cardinality(TmpGet(last'.id)) = 1
           /\ \A t \in TmpGet(last'.id) : \A r \in StoredAfter(last'.id) :
                /\ r.upload_id = t.upload_id
                /\ r.file = t.file
                /\ r.uploaded = t.uploaded
                /\ r.uploaded_by = t.uploaded_by
                /\ last'.su = r
           /\ TmpAfter(last'.id) = {}]_vars

\* C3's case: a promotion returned the record of an upload made by alice.
C3_Witness ==
    /\ last.op = "store_upload"
    /\ last.result = "ok"
    /\ last.su.uploaded_by = "alice"
    /\ last.su \in stored

\* A Temporary Upload and a Stored Upload share this upload_id.
Coexist(upload_id) == TmpGet(upload_id) # {} /\ StoredGetById(upload_id) # {}

CoexistAfter(upload_id) == TmpAfter(upload_id) # {} /\ StoredAfter(upload_id) # {}

\* C4, as claimed: in every reachable state, failed operations included, no
\* upload_id has both a Temporary Upload and a Stored Upload.
C4_NeverBothRecords == \A u \in Ids : ~Coexist(u)

\* C4, amended: an upload_id comes to have both a Temporary Upload and a
\* Stored Upload only by a store_upload of it that saved the Stored Upload and
\* then failed to delete the Temporary Upload; no other operation, failed or
\* not, makes the two coexist.
C4_BothOnlyAfterFailedDelete ==
    [][\A u \in Ids :
        (CoexistAfter(u) /\ ~Coexist(u))
            => /\ last'.op = "store_upload"
               /\ last'.id = u
               /\ last'.result = "Error:delete"]_vars

\* C4's case: uploads were promoted, reverted or deleted and one record each
\* is left, or a promotion failed at the deletion and left both.
C4_Witness ==
    /\ last.op = "store_upload"
    /\ last.result = "Error:delete"
    /\ Coexist(last.id)
    /\ \E u \in Ids : u # last.id /\ StoredGetById(u) # {} /\ ~Coexist(u)

\* C5, as claimed: when saving the Stored Upload fails, store_upload raises,
\* the Temporary Upload for U is present and unchanged and no Stored Upload
\* for U exists.
C5_FailedSaveLeavesNoStoredRecord ==
    [][(last'.op = "store_upload" /\ last'.result = "Error:save")
        => /\ TmpGet(last'.id) # {}
           /\ TmpAfter(last'.id) = TmpGet(last'.id)
           /\ StoredAfter(last'.id) = {}]_vars

\* C5, amended: when saving the Stored Upload fails, store_upload raises, the
\* Temporary Upload for U is present and unchanged and the call has created no
\* Stored Upload: the Stored Uploads are those of before the call (one for U
\* exists only if an earlier promotion left it, having failed to delete the
\* Temporary Upload).
C5_FailedSaveChangesNothing ==
    [][(last'.op = "store_upload" /\ last'.result = "Error:save")
        => /\ TmpGet(last'.id) # {}
           /\ tmp' = tmp
           /\ stored' = stored]_vars

\* C5's case: a save failed for an upload that has its Temporary Upload and
\* no Stored Upload.
C5_Witness ==
    /\ last.op = "store_upload"
    /\ last.result = "Error:save"
    /\ TmpGet(last.id) # {}
    /\ StoredGetById(last.id) = {}

\* C6: when the Stored Upload has been saved and deleting the Temporary Upload
\* then fails, the promotion is not rolled back: after the call the Stored
\* Upload for U is persisted, with the Temporary Upload's fields, alongside
\* the Temporary Upload.
C6_FailedDeleteKeepsStoredRecord ==
    [][(last'.op = "store_upload" /\ last'.result = "Error:delete")
        => /\ Cardinality(StoredAfter(last'.id)) = 1
           /\ TmpGet(last'.id) # {}
           /\ TmpAfter(last'.id) = TmpGet(last'.id)
           /\ \A t \in TmpGet(last'.id) : \A r \in StoredAfter(last'.id) :
                /\ r.upload_id = t.upload_id
                /\ r.file = t.file
                /\ r.uploaded = t.uploaded
                /\ r.uploaded_by = t.uploaded_by]_vars

\* C6's case: a promotion failed at the deletion and both records are there.
C6_Witness ==
    /\ last.op = "store_upload"
    /\ last.result = "Error:delete"
    /\ StoredGetById(last.id) # {}
    /\ TmpGet(last.id) # {}

\* The settings name a remote backend, or a usable FILE_STORE_PATH.
StorageConfigured == cfg.STORAGES_BACKEND \notin {UNSET, ""} \/ FileStorePathOk

\* Where the active backend looks for the artifacts of Stored Uploads.
ArtifactLoc == StoreLoc(InitIfNeeded.storage_backend)

\* C7: promote, then retrieve: after store_upload(U) has returned the Stored
\* Upload S, get_stored_upload_file_data of S with no variant succeeds and
\* returns the bytes held for U in temporary storage before the promotion
\* (here with the storage settings valid).
C7_PromoteThenRetrieve ==
    [][(/\ StorageConfigured
        /\ last.op = "store_upload" /\ last.result = "ok"
        /\ last'.op = "get_stored_upload_file_data"
        /\ last'.su = last.su
        /\ last'.thumbnail_type = "none")
        => /\ last'.result = "ok"
           /\ last'.data = <<assembled[last.su.upload_id]>>]_vars

\* The lookups get_stored_upload made.
LookedUpByFile == \E i \in 1..Len(last.trace) : last.trace[i] = "su.get(file)"

LookedUpByIdFirst == Len(last.trace) > 0 /\ last.trace[1] = "su.get(upload_id)"

\* C8, as claimed: get_stored_upload looks up by upload_id first; the lookup by
\* file path is made exactly when no record has the upload_id and the
\* identifier does not match the upload_id format; a record with the upload_id
\* is preferred to one with the file path.
C8_FileLookupOnlyForIllFormedIds ==
    last.op = "get_stored_upload"
        => /\ LookedUpByIdFirst
           /\ LookedUpByFile
                <=> (StoredGetById(last.id) = {} /\ ~IdFmtMatch(last.id))
           /\ StoredGetById(last.id) # {} => last.su \in StoredGetById(last.id)

\* C8, amended: get_stored_upload looks up by upload_id first when the
\* identifier matches the upload_id format and skips that lookup when it does
\* not; the lookup by file path is made exactly when no record has the
\* upload_id, whether or not the identifier matches the format; a record with
\* the upload_id is returned in preference to any record with the file path.
C8_FileLookupWheneverNoIdMatch ==
    last.op = "get_stored_upload"
        => /\ LookedUpByIdFirst <=> IdFmtMatch(last.id)
           /\ LookedUpByFile <=> StoredGetById(last.id) = {}
           /\ StoredGetById(last.id) # {}
                => /\ last.result = "ok"
                   /\ last.su \in StoredGetById(last.id)
           /\ StoredGetById(last.id) = {}
                => /\ StoredGetByFile(last.id) = {} => last.result = "DoesNotExist"
                   /\ last.result = "ok" => last.su \in StoredGetByFile(last.id)

\* C8's case: one record has the identifier as upload_id, another has it as
\* file path, and the first was returned.
C8_Witness ==
    /\ last.op = "get_stored_upload"
    /\ last.result = "ok"
    /\ last.su.upload_id = last.id
    /\ \E r \in stored : r.file = last.id /\ r # last.su

\* C9, as claimed: get_stored_upload_file_data returns name and bytes only if
\* the artifact exists in the active backend (locally: a file under
\* FILE_STORE_PATH); when the record exists and the artifact is missing it
\* raises FileNotFoundError and returns no data.
C9_MissingArtifactIsFileNotFound ==
    last.op = "get_stored_upload_file_data"
        => /\ last.result = "ok" => FileExists(ArtifactLoc, last.su.file)
           /\ (last.su \in stored /\ ~FileExists(ArtifactLoc, last.su.file))
                => last.result = "FileNotFoundError" /\ last.data = <<>>

\* C9, amended: get_stored_upload_file_data returns name and bytes only if the
\* artifact exists in the active backend; when the record exists and the
\* artifact is missing it returns no data and raises FileNotFoundError, or,
\* with the local backend and no usable FILE_STORE_PATH, ConfigurationError.
C9_MissingArtifactRaises ==
    last.op = "get_stored_upload_file_data"
        => /\ last.result = "ok"
                => /\ StorageConfigured
                   /\ FileExists(ArtifactLoc, last.su.file)
                   /\ last.filename = Basename(last.su.file)
                   /\ last.thumbnail_type = "none"
                        => last.data = <<FileContent(ArtifactLoc, last.su.file)>>
           /\ (last.su \in stored /\ ~FileExists(ArtifactLoc, last.su.file))
                => /\ last.data = <<>> /\ last.filename = <<>>
                   /\ last.result = IF StorageConfigured THEN "FileNotFoundError"
                                    ELSE "ConfigurationError"

\* C9's case: the record is there, the storage is configured and the artifact
\* is not in it.
C9_Witness ==
    /\ last.op = "get_stored_upload_file_data"
    /\ last.su \in stored
    /\ StorageConfigured
    /\ ~FileExists(ArtifactLoc, last.su.file)
    /\ last.result = "FileNotFoundError"

\* The record get_stored_upload resolves this identifier to, if any.
Resolved(upload_id) ==
    {got.su : got \in {g \in {get_stored_upload(upload_id)} : g.result = "ok"}}

ArtifactRemoved(su) ==
    /\ FileExists(ArtifactLoc, su.file)
    /\ files' = {f \in files : ~(f.loc = ArtifactLoc /\ f.name = su.file)}

DeletedWithMissingArtifact ==
    IF last'.op = "delete_stored_upload" /\ last'.delete_file
    THEN {su \in Resolved(last'.id) : ~FileExists(ArtifactLoc, su.file)}
    ELSE {}

\* C11, as claimed: delete_stored_upload(identifier, delete_file=True) on a
\* Stored Upload whose artifact is not in the backend raises
\* FileNotFoundError, deletes nothing from the backend, and has removed the
\* record when the error is raised.
C11_MissingArtifactIsFileNotFound ==
    [][\A su \in DeletedWithMissingArtifact :
           /\ last'.result = "FileNotFoundError"
           /\ files' = files
           /\ stored' = stored \ {su}]_vars

\* C11, amended: delete_stored_upload(identifier, delete_file=True) on a
\* Stored Upload whose artifact is not in the backend raises
\* FileNotFoundError, or, with the local backend and no usable
\* FILE_STORE_PATH, ConfigurationError; either way it deletes nothing from the
\* backend and has removed the record (and no other) when the error is raised.
C11_MissingArtifactRaisesRecordGone ==
    [][\A su \in DeletedWithMissingArtifact :
           /\ last'.result = IF StorageConfigured THEN "FileNotFoundError"
                             ELSE "ConfigurationError"
           /\ files' = files
           /\ su \in stored
           /\ stored' = stored \ {su}]_vars

\* C11's case: with the storage configured, a delete with delete_file true
\* raised FileNotFoundError for a missing artifact, and the record is gone
\* while other files are still in the stores.
C11_Witness ==
    /\ last.op = "delete_stored_upload"
    /\ last.delete_file
    /\ last.result = "FileNotFoundError"
    /\ StorageConfigured
    /\ last.su.upload_id # <<>>
    /\ last.su \notin stored
    /\ files # {}

\* The last call deleted a record and kept its file, and this step looks the
\* file's path up with get_stored_upload.
LookupByPathAfterKeepingFile ==
    /\ last.op = "delete_stored_upload"
    /\ ~last.delete_file
    /\ last.result = "True"
    /\ last'.op = "get_stored_upload"
    /\ last'.id = last.su.file

\* The artifact of this record is in the backend after the step.
ArtifactThereAfter(su) ==
    \E f \in files' : f.loc = ArtifactLoc /\ f.name = su.file

\* C12, as claimed: after delete_stored_upload(U, delete_file=False) the
\* artifact is intact and the lookup by stored file path still finds it though
\* the record is gone; after delete_stored_upload(U, delete_file=True) the
\* record and the artifact are both gone.
C12_KeptFileRetrievableByPath ==
    [][/\ last'.op = "delete_stored_upload"
            => \A su \in Resolved(last'.id) :
                   /\ su \notin stored'
                   /\ ~last'.delete_file => files' = files
                   /\ last'.delete_file => ~ArtifactThereAfter(su)
       /\ LookupByPathAfterKeepingFile => last'.result = "ok"]_vars

\* C12, amended: after delete_stored_upload(U, delete_file=False) the artifact
\* is intact and the record is gone, and get_stored_upload of the stored file
\* path no longer finds it: that lookup searches the Stored Upload records, so
\* it raises DoesNotExist unless another record has that path (or that
\* upload_id), and never returns the deleted record.  After
\* delete_stored_upload(U, delete_file=True) has returned True both the record
\* and the artifact are gone; when it raises, the record is gone all the same.
C12_KeptFileNotFoundByPath ==
    [][/\ last'.op = "delete_stored_upload"
            => \A su \in Resolved(last'.id) :
                   /\ su \notin stored'
                   /\ ~last'.delete_file => files' = files
                   /\ (last'.delete_file /\ last'.result = "True")
                        => ~ArtifactThereAfter(su)
       /\ LookupByPathAfterKeepingFile
            => /\ last'.su # last.su
               /\ last'.result = "ok" => last'.su \in stored
               /\ (\A r \in stored : r.file # last.su.file /\ r.upload_id # last.su.file)
                    => last'.result = "DoesNotExist"]_vars

\* C12's case: a record was deleted with delete_file false, its artifact is
\* still in the backend, and the lookup by its path finds no record.
C12_Witness ==
    /\ last.op = "delete_stored_upload"
    /\ ~last.delete_file
    /\ last.result = "True"
    /\ last.su \notin stored
    /\ FileExists(ArtifactLoc, last.su.file)
    /\ get_stored_upload(last.su.file).result = "DoesNotExist"

\* This step is an operation that needs the permanent store and has passed
\* the checks of its arguments: a store_upload of a well-formed id that has a
\* Temporary Upload, a get_stored_upload_file_data, or a delete_stored_upload
\* with delete_file true of an identifier that resolves.
NeedsPermanentStorage ==
    \/ last'.op = "store_upload" /\ IdFmtMatch(last'.id) /\ TmpGet(last'.id) # {}
    \/ last'.op = "get_stored_upload_file_data"
    \/ /\ last'.op = "delete_stored_upload"
       /\ last'.delete_file
       /\ Resolved(last'.id) # {}

\* C13: with the local backend and FILE_STORE_PATH unset, empty, non-existent
\* or not a directory, an operation that needs the permanent store
\* (store_upload, get_stored_upload_file_data, delete_stored_upload with
\* delete_file true) fails with ConfigurationError and leaves the Temporary
\* Uploads and the Stored Uploads unchanged.
C13_BadStorePathIsConfigurationError ==
    [][(cfg \in BadStorePathConfigs /\ NeedsPermanentStorage)
        => /\ last'.result = "ConfigurationError"
           /\ tmp' = tmp
           /\ stored' = stored]_vars

\* The last call asked get_stored_upload_file_data for a named variant.
VariantRequested ==
    /\ last.op = "get_stored_upload_file_data"
    /\ last.thumbnail_type # "none"

\* get_thumbnail was called and gave no thumbnail / gave one.
TransformFailed == last.trace = <<"get_thumbnail", "missing">>

TransformSucceeded == last.trace = <<"get_thumbnail", "exists">>

FormatAccepted ==
    \/ last.op = "store_upload" /\ last.result # "ValueError:format"
    \/ last.op = "get_stored_upload" /\ LookedUpByIdFirst

\* C15: the identifier format check of store_upload and get_stored_upload
\* accepts a string if and only if it has exactly 22 characters, each of the
\* shortuuid alphabet; a string of another length or with another character
\* (a newline after 22 valid characters included) is rejected.
C15_AcceptsExactly22AlphabetChars ==
    last.op \in {"store_upload", "get_stored_upload"}
        => (FormatAccepted
                <=> (Len(last.id) = IdLen /\ \A n \in 1..Len(last.id) : last.id[n] \in Alphabet))

\* The artifact in temporary storage of the Temporary Upload with this
\* upload_id is there after the step.
TempArtifactThereAfter(upload_id) ==
    \E t \in TmpGet(upload_id) :
        \E f \in files' : f.loc = cfg.UPLOAD_TMP /\ f.name = t.file

\* C16: a successful revert of an existing Temporary Upload U (204, empty
\* body, the id sent as text or as bytes) removes the record and the artifact
\* in temporary storage and nothing else; a get or a revert of U that follows
\* finds nothing (404).
C16_RevertRemovesRecordAndArtifact ==
    [][/\ (last'.op = "revert" /\ last'.result = "204")
            => /\ TmpGet(last'.id) # {}
               /\ last'.data = <<>>
               /\ TmpAfter(last'.id) = {}
               /\ tmp' = tmp \ TmpGet(last'.id)
               /\ ~TempArtifactThereAfter(last'.id)
               /\ \A f \in files \ files' :
                    \E t \in TmpGet(last'.id) : f.loc = cfg.UPLOAD_TMP /\ f.name = t.file
               /\ files' \subseteq files
               /\ stored' = stored
       /\ (last.op = "revert" /\ last.result = "204"
           /\ last'.op = "revert" /\ last'.id = last.id)
            => last'.result = "404"]_vars

\* C16's case: an upload_id sent as bytes was reverted: its record and its
\* artifact are gone while another upload's are still there.
C16_Witness ==
    /\ last.op = "revert"
    /\ last.result = "204"
    /\ last.trace = <<"decode">>
    /\ last.id \in used
    /\ TmpGet(last.id) = {}
    /\ tmp # {}
    /\ files # {}

\* C17: revert with an identifier that is not a well-formed upload id is
\* answered 400 "The provided data is invalid.", and revert with a well-formed
\* identifier that has no Temporary Upload is answered 404 "The specified
\* file does not exist."; in both cases no record and no file is removed.
C17_RevertRejectsInvalidAndMissing ==
    [][last'.op = "revert"
        => /\ ~format_valid(last'.id)
                => /\ last'.result = "400"
                   /\ last'.data = <<"The provided data is invalid.">>
           /\ (format_valid(last'.id) /\ TmpGet(last'.id) = {})
                => /\ last'.result = "404"
                   /\ last'.data = <<"The specified file does not exist.">>
           /\ last'.result \in {"400", "404"}
                => tmp' = tmp /\ stored' = stored /\ files' = files]_vars

\* C17's case: a well-formed identifier without a Temporary Upload was
\* answered 404 while there were records and files to remove.
C17_Witness ==
    /\ last.op = "revert"
    /\ last.result = "404"
    /\ format_valid(last.id)
    /\ tmp # {} /\ stored # {} /\ files # {}

\* An ill-formed identifier was answered 400 while there were records and
\* files to remove.
C17_WitnessInvalid ==
    /\ last.op = "revert"
    /\ last.result = "400"
    /\ tmp # {} /\ files # {}

\* C18: store_upload(U) and revert(U) exclude each other: however their steps
\* interleave, no state has a Stored Upload for U whose artifact the revert
\* has deleted.
C18_NoStoredRecordOfRevertedArtifact ==
    \A r \in stored : r.upload_id \notin pc.reverted

\* C19: S3MoveStorage.save moves the artifact from its temporary key to its
\* permanent key, by a copy to the destination key and a delete of the source
\* key: after it the destination key holds the content and the source key no
\* longer exists.
C19_SaveMovesTheObject ==
    [][(last'.op = "S3MoveStorage.save" /\ last'.result = "ok")
        => /\ \E f \in files' :
                /\ f.loc = "bucket"
                /\ f.name = _normalize_name(_clean_name(last'.id))
                /\ f.content = FileContent("bucket", last'.data[1])
           /\ ~\E f \in files' : f.loc = "bucket" /\ f.name = last'.data[1]]_vars

\* C20: init_storage_backend with no remote backend configured verifies that
\* FILE_STORE_PATH is set and is an existing directory and fails with a
\* configuration error otherwise; after a successful initialisation the
\* module's storage_backend_initialised flag is true.
C20_InitChecksLocalStorePath ==
    [][last'.op = "init_storage_backend"
        => /\ (cfg.STORAGES_BACKEND \in {UNSET, ""} /\ ~FileStorePathOk)
                => last'.result \in {"ImproperlyConfigured", "FileNotFoundError"}
           /\ last'.result = "ok" => storage_backend_initialised']_vars

\* C25: get_stored_upload(x) with a well-formed 22-character x that is the
\* upload_id of no Stored Upload looks x up by upload_id and then has another
\* go with x as a file path: it returns the Stored Upload whose file path is
\* x when there is one, and raises DoesNotExist only when neither lookup
\* finds a record.
C25_WellFormedIdFallsBackToFilePath ==
    (/\ last.op = "get_stored_upload"
     /\ IdFmtMatch(last.id) /\ Len(last.id) = IdLen
     /\ StoredGetById(last.id) = {})
        => /\ last.trace = <<"su.get(upload_id)", "su.get(file)">>
           /\ \A r \in StoredGetByFile(last.id) :
                last.result = "ok" /\ last.su = r /\ last.su.file = last.id
           /\ last.result = "DoesNotExist" <=> StoredGetByFile(last.id) = {}

\* C25's case: a well-formed identifier that is no record's upload_id was
\* answered with the record that has it as file path.
C25_Witness ==
    /\ last.op = "get_stored_upload"
    /\ IdFmtMatch(last.id) /\ Len(last.id) = IdLen
    /\ StoredGetById(last.id) = {}
    /\ last.result = "ok"
    /\ last.su \in stored
    /\ last.su.file = last.id
    /\ last.su.upload_id # last.id

\* C30: get_stored_upload and get_stored_upload_file_data are read-only:
\* whether the call returns or raises, the Temporary Uploads, the Stored
\* Uploads and the stored artifacts are after the call what they were before.
C30_RetrievalIsReadOnly ==
    [][last'.op \in {"get_stored_upload", "get_stored_upload_file_data"}
        => tmp' = tmp /\ stored' = stored /\ files' = files]_vars

\* C30's case: the data of a variant of a stored image was returned while
\* there were Temporary Uploads, Stored Uploads and files.
C30_Witness ==
    /\ last.op = "get_stored_upload_file_data"
    /\ last.result = "ok"
    /\ last.trace = <<"get_thumbnail", "exists">>
    /\ tmp # {} /\ stored # {} /\ files # {}

\* The upload id has been handed out and no Temporary Upload has it: the
\* upload was promoted or reverted.
NoLongerTemporary(upload_id) == upload_id \in used /\ TmpGet(upload_id) = {}

NoLongerTemporaryAfter(upload_id) ==
    upload_id \in DOMAIN assembled' /\ TmpAfter(upload_id) = {}

\* C27: PROMOTED is terminal.  A store_upload(U) that succeeds leaves U
\* without a Temporary Upload, no later step gives U one again, and every
\* store_upload(U) made from then on fails with the not-found ValueError and
\* leaves the Stored Uploads, the record of U among them, as they are.
C27_PromotedIsTerminal ==
    [][\A U \in Ids :
        /\ (last'.op = "store_upload" /\ last'.id = U /\ last'.result = "ok")
             => NoLongerTemporaryAfter(U)
        /\ NoLongerTemporary(U) => NoLongerTemporaryAfter(U)
        /\ (NoLongerTemporary(U) /\ last'.op = "store_upload" /\ last'.id = U)
             => /\ last'.result = "ValueError:norecord"
                /\ stored' = stored]_vars

\* C27's case: a promoted upload was promoted again, and refused.
C27_Witness ==
    /\ last.op = "store_upload"
    /\ last.result = "ValueError:norecord"
    /\ StoredGetById(last.id) # {}
    /\ TmpGet(last.id) = {}

\* The upload ids a store_upload in progress is promoting.
BeingPromoted ==
    {pc.calls[w].temp_upload.upload_id : w \in {v \in Workers : pc.calls[v].at # "idle"}}

\* C26: store_upload deletes the Temporary Upload only after it has saved the
\* Stored Upload: at every point of a promotion of U, and after a promotion of
\* U has failed, a Temporary Upload or a Stored Upload has upload_id U.
C26_PromotionNeverLosesTheRecord ==
    /\ \A U \in BeingPromoted : TmpGet(U) # {} \/ StoredGetById(U) # {}
    /\ (last.op = "store_upload" /\ last.result \in {"Error:save", "Error:delete"})
         => TmpGet(last.id) # {} \/ StoredGetById(last.id) # {}

\* C26's case: a promotion failed at su.save() while another promotion of the
\* same upload was between its su.save() and its temp_upload.delete().
C26_Witness ==
    /\ last.op = "store_upload"
    /\ last.result = "Error:save"
    /\ \E w \in Workers :
          /\ pc.calls[w].at = "delete"
          /\ pc.calls[w].temp_upload.upload_id = last.id

\* C28: however the statements of two store_upload(U) calls for the same
\* Temporary Upload interleave, at most one Stored Upload has upload_id U, at
\* most one of the calls returns a Stored Upload, and no Temporary Upload has
\* upload_id U once a call has returned one.
C28_OnePromotionWins ==
    \A U \in Ids :
        /\ Cardinality(StoredGetById(U)) <= 1
        /\ pc.returned[U] <= 1
        /\ pc.returned[U] >= 1 => TmpGet(U) = {}

\* C28's case: both workers had read the Temporary Upload of U; one has
\* returned the Stored Upload and the other was refused at su.save().
C28_Witness ==
    /\ last.op = "store_upload"
    /\ last.result = "Error:save"
    /\ pc.returned[last.id] = 1
    /\ TmpGet(last.id) = {}
    /\ \A w \in Workers : pc.calls[w].at = "idle"

\* C29: the storage backend of the api module is created at most once:
\* storage_backend_initialised goes from False to True and never back, and once
\* it is True no step instantiates or replaces storage_backend, also when two
\* workers make their first calls at the same time.
C29_BackendInitialisedAtMostOnce ==
    [][storage_backend_initialised
        => /\ storage_backend_initialised'
           /\ storage_backend' = storage_backend]_vars

\* The chunked uploads with this upload id that have not received all their
\* bytes.
Incomplete(upload_id) == {c \in ChunkedGet(upload_id) : ChunkedState(c) # "COMPLETE"}

\* C21: a chunked upload can be promoted only when its received bytes equal
\* its declared total: store_upload of a chunked upload that is not COMPLETE
\* never succeeds and creates no Stored Upload, and a chunk that would take
\* the received bytes beyond the declared total is refused and not counted.
C21_OnlyCompleteUploadsArePromoted ==
    [][/\ (last'.op = "store_upload" /\ Incomplete(last'.id) # {})
            => /\ last'.result # "ok"
               /\ StoredAfter(last'.id) = {}
       /\ \A c \in pc.chunked :
            (/\ last'.op = "chunk" /\ last'.id = c.upload_id
             /\ Less(c.total_size, Plus(c.received, last'.data)))
                => last'.result = "IntegrityError" /\ pc' = pc]_vars

\* A new chunked upload was requested with a declared total of more than 2^31
\* bytes.
LargeUploadRequested == last.op = "chunked_initiate" /\ Less(TwoTo31, last.data)

StorageOutsideBaseDir ==
    ~Within(BASE_DIR, cfg.location) \/ ~Within(BASE_DIR, cfg.UPLOAD_TMP)

\* C22: an upload whose temporary storage resolves to a place outside
\* BASE_DIR, given as an absolute path or reached through "..", is answered
\* 500 and makes no Temporary Upload, no file and no directory, unless
\* ALLOW_EXTERNAL_UPLOAD_DIR is true, and then it succeeds.
C22_ExternalUploadDirNeedsTheOverride ==
    [][(last'.op = "process" /\ StorageOutsideBaseDir)
        => IF cfg.ALLOW_EXTERNAL_UPLOAD_DIR
           THEN /\ last'.result = "200"
                /\ TmpAfter(last'.id) # {}
                /\ TmpGet(last'.id) = {}
           ELSE /\ last'.result = "500"
                /\ tmp' = tmp /\ files' = files /\ pc' = pc]_vars

\* C22's case: UPLOAD_TMP leaves BASE_DIR through ".." components, external
\* directories are not allowed, and the upload was answered 500.
C22_Witness ==
    /\ last.op = "process"
    /\ last.result = "500"
    /\ ~cfg.ALLOW_EXTERNAL_UPLOAD_DIR
    /\ Under(BASE_DIR, cfg.UPLOAD_TMP)
    /\ ~Within(BASE_DIR, cfg.UPLOAD_TMP)
    /\ Within(BASE_DIR, cfg.location)

\* C24: a successful revert removes the file of the upload; its per-upload
\* directory stays when DELETE_UPLOAD_TMP_DIRS is false and is removed only
\* when the setting asks for the cleanup.
C24_DirectoryKeptUnlessCleanupRequested ==
    [][(last'.op = "revert" /\ last'.result = "204")
        => \A t \in TmpGet(last'.id) :
             /\ FileExists(cfg.UPLOAD_TMP, t.file)
                  => \A f \in files' : ~(f.loc = cfg.UPLOAD_TMP /\ f.name = t.file)
             /\ ~cfg.DELETE_UPLOAD_TMP_DIRS => pc'.dirs = pc.dirs
             /\ pc'.dirs # pc.dirs
                  => /\ cfg.DELETE_UPLOAD_TMP_DIRS
                     /\ pc'.dirs = pc.dirs \ {Dirname(t.file)}]_vars

\* C24's case: with the cleanup switched off an upload was reverted; its file
\* is gone and its directory is still there.
C24_Witness ==
    /\ last.op = "revert"
    /\ last.result = "204"
    /\ ~cfg.DELETE_UPLOAD_TMP_DIRS
    /\ last.id \in pc.dirs
    /\ \A f \in files : Dirname(f.name) # last.id

====
